---- MODULE Spec2Model ----
(***************************************************************************)
(* Model of group_classification_results_activity                          *)
(* (src/activities/group_classification_results.py): the four passes that  *)
(* partition classified pages into surgery-schedule pages and per-patient  *)
(* page groups.  Python strings are sequences of one-character strings.    *)
(***************************************************************************)
EXTENDS Integers, Sequences, FiniteSets, TLC

(***************************************************************************)
(* String primitives (str.lower, str.strip, "in", str.split, str.join,     *)
(* str.isdigit).                                                           *)
(***************************************************************************)
UpperCase == <<"A", "B", "C", "D", "E", "F", "G", "H", "I", "J", "K", "L", "M", "N", "O", "P", "Q", "R", "S", "T", "U", "V", "W", "X", "Y", "Z">>

LowerCase == <<"a", "b", "c", "d", "e", "f", "g", "h", "i", "j", "k", "l", "m", "n", "o", "p", "q", "r", "s", "t", "u", "v", "w", "x", "y", "z">>

Digits == <<"0", "1", "2", "3", "4", "5", "6", "7", "8", "9">>

MinOf(set) == CHOOSE n \in set : \A m \in set : n <= m

MaxOf(set) == CHOOSE n \in set : \A m \in set : n >= m

\* Position of the first c in seq at or after n (0 when there is none)
IndexOf(seq, c, n) ==
  LET hits == {k \in n..Len(seq) : seq[k] = c} IN
  IF hits = {} THEN 0 ELSE MinOf(hits)

Lower(c) ==
  LET n == IndexOf(UpperCase, c, 1) IN IF n = 0 THEN c ELSE LowerCase[n]

\* The sequence with the elements of f, evaluated once
Materialize(f) == f \o <<>>

LowerStr(s) == Materialize([n \in 1..Len(s) |-> Lower(s[n])])

IsSpace(c) == c = " "

IsDigit(c) == IndexOf(Digits, c, 1) # 0

DigitVal(c) == IndexOf(Digits, c, 1) - 1

IsDigitStr(s) == Len(s) > 0 /\ \A n \in 1..Len(s) : IsDigit(s[n])

\* str.strip()
Strip(s) ==
  LET kept == {n \in 1..Len(s) : ~IsSpace(s[n])} IN
  IF kept = {} THEN <<>> ELSE SubSeq(s, MinOf(kept), MaxOf(kept))

StartsAt(hay, needle, pos) ==
  /\ pos + Len(needle) - 1 <= Len(hay)
  /\ \A n \in 1..Len(needle) : hay[pos + n - 1] = needle[n]

Contains(hay, needle) == \E pos \in 1..(Len(hay) + 1) : StartsAt(hay, needle, pos)

\* str.split(sep): the pieces between consecutive separators
Split(s, sep) ==
  LET seps == {n \in 1..Len(s) : s[n] = sep}
      cut(k) == IF k = 0 THEN 0
                ELSE IF k > Cardinality(seps) THEN Len(s) + 1
                ELSE CHOOSE n \in seps : Cardinality({m \in seps : m < n}) = k - 1
  IN Materialize([k \in 1..(Cardinality(seps) + 1) |->
                    SubSeq(s, cut(k - 1) + 1, cut(k) - 1)])

RECURSIVE Join(_, _)
Join(parts, sep) ==
  IF Len(parts) = 0 THEN <<>>
  ELSE IF Len(parts) = 1 THEN parts[1]
  ELSE parts[1] \o <<sep>> \o Join(Tail(parts), sep)

Min2(a, b) == IF a < b THEN a ELSE b

(***************************************************************************)
(* Classification payload values: a tagged tree of str, None, dict (an     *)
(* ordered sequence of key/value entries) and list.                        *)
(***************************************************************************)
None == [t |-> "none", s |-> <<>>, items |-> <<>>]

S(s) == [t |-> "str", s |-> s, items |-> <<>>]

D(items) == [t |-> "dict", s |-> <<>>, items |-> items]

L(items) == [t |-> "list", s |-> <<>>, items |-> items]

E(k, v) == [k |-> k, v |-> v]

\* Python truthiness of a payload value
Truthy(v) ==
  CASE v.t = "none" -> FALSE
    [] v.t = "str" -> Len(v.s) > 0
    [] OTHER -> Len(v.items) > 0

\* str(value): the repr of a dict / list, the text itself for a str
RECURSIVE Repr(_), ReprItems(_, _, _)
Repr(v) ==
  CASE v.t = "none" -> <<"N", "o", "n", "e">>
    [] v.t = "str" -> <<"'">> \o v.s \o <<"'">>
    [] v.t = "dict" -> <<"{">> \o ReprItems(v.items, 1, TRUE) \o <<"}">>
    [] OTHER -> <<"[">> \o ReprItems(v.items, 1, FALSE) \o <<"]">>

ReprItems(items, n, withKey) ==
  IF n > Len(items) THEN <<>>
  ELSE (IF n > 1 THEN <<",", " ">> ELSE <<>>)
       \o (IF withKey THEN <<"'">> \o items[n].k \o <<"'">> \o <<":", " ">> ELSE <<>>)
       \o Repr(items[n].v)
       \o ReprItems(items, n + 1, withKey)

Str(v) == IF v.t = "str" THEN v.s ELSE Repr(v)

\* dict.get(key, default) on a payload mapping
RECURSIVE DictGet(_, _, _, _)
DictGet(items, key, default, n) ==
  IF n > Len(items) THEN default
  ELSE IF items[n].k = key THEN items[n].v
  ELSE DictGet(items, key, default, n + 1)

(***************************************************************************)
(* find_field: depth-first lookup of the first key containing a candidate  *)
(* substring.                                                              *)
(***************************************************************************)
field_mappings ==
  [first_name |-> << <<"f", "i", "r", "s", "t", "n", "a", "m", "e">>, <<"f", "i", "r", "s", "t", "_", "n", "a", "m", "e">>, <<"f", "i", "r", "s", "t", " ", "n", "a", "m", "e">>, <<"f", "n", "a", "m", "e">>,
                     <<"p", "a", "t", "i", "e", "n", "t", " ", "f", "i", "r", "s", "t", " ", "n", "a", "m", "e">> >>,
   last_name |-> << <<"l", "a", "s", "t", "n", "a", "m", "e">>, <<"l", "a", "s", "t", "_", "n", "a", "m", "e">>, <<"l", "a", "s", "t", " ", "n", "a", "m", "e">>, <<"l", "n", "a", "m", "e">>,
                    <<"p", "a", "t", "i", "e", "n", "t", " ", "l", "a", "s", "t", " ", "n", "a", "m", "e">>, <<"s", "u", "r", "n", "a", "m", "e">> >>,
   dob |-> << <<"d", "a", "t", "e", " ", "o", "f", " ", "b", "i", "r", "t", "h">>, <<"d", "o", "b">>, <<"b", "i", "r", "t", "h", "d", "a", "t", "e">>, <<"b", "i", "r", "t", "h", " ", "d", "a", "t", "e">>,
              <<"d", "a", "t", "e", "_", "o", "f", "_", "b", "i", "r", "t", "h">>, <<"b", "i", "r", "t", "h", "_", "d", "a", "t", "e">> >>,
   mrn |-> << <<"m", "e", "d", "i", "c", "a", "l", " ", "r", "e", "c", "o", "r", "d", " ", "n", "u", "m", "b", "e", "r">>, <<"m", "r", "n">>, <<"m", "e", "d", "i", "c", "a", "l", "_", "r", "e", "c", "o", "r", "d", "_", "n", "u", "m", "b", "e", "r">>,
              <<"p", "a", "t", "i", "e", "n", "t", " ", "m", "e", "d", "i", "c", "a", "l", " ", "r", "e", "c", "o", "r", "d", " ", "n", "u", "m", "b", "e", "r">>, <<"r", "e", "c", "o", "r", "d", " ", "n", "u", "m", "b", "e", "r">>,
              <<"r", "e", "c", "o", "r", "d", "_", "n", "u", "m", "b", "e", "r">> >>]

RECURSIVE find_field(_, _), find_field_dict(_, _, _), find_field_list(_, _, _)
find_field(data, field_names) ==
  CASE data.t = "dict" -> find_field_dict(data.items, 1, field_names)
    [] data.t = "list" -> find_field_list(data.items, 1, field_names)
    [] OTHER -> None

find_field_dict_own_keys(items, n, field_names) ==
  LET rest == n..Len(items)
      hits == {k \in rest : \E f \in 1..Len(field_names) :
                 Contains(LowerStr(items[k].k), field_names[f])}
      below == {k \in rest : find_field(items[k].v, field_names).t # "none"}
  IN IF hits # {} THEN items[MinOf(hits)].v
     ELSE IF below # {} THEN find_field(items[MinOf(below)].v, field_names)
     ELSE None

find_field_dict(items, n, field_names) ==
  IF n > Len(items) THEN None
  ELSE LET key_lower == LowerStr(items[n].k) IN
       IF \E f \in 1..Len(field_names) : Contains(key_lower, field_names[f])
       THEN items[n].v
       ELSE LET result == find_field(items[n].v, field_names) IN
            IF result.t # "none" THEN result
            ELSE find_field_dict(items, n + 1, field_names)

find_field_list(items, n, field_names) ==
  IF n > Len(items) THEN None
  ELSE LET result == find_field(items[n].v, field_names) IN
       IF result.t # "none" THEN result
       ELSE find_field_list(items, n + 1, field_names)

(***************************************************************************)
(* DOB normalisation: datetime.strptime over the ordered date_formats,     *)
(* then the dateutil fallback, then strftime("%Y_%m_%d").                  *)
(***************************************************************************)
\* A format list that tries day/month before month/day
date_formats_day_first ==
  << <<"%Y", "-", "%m", "-", "%d">>,
     <<"%d", "/", "%m", "/", "%Y">>,
     <<"%m", "/", "%d", "/", "%Y">>,
     <<"%Y", "/", "%m", "/", "%d">>,
     <<"%m", "-", "%d", "-", "%Y">>,
     <<"%d", "-", "%m", "-", "%Y">>,
     <<"%B", " ", "%d", ",", " ", "%Y">>,
     <<"%b", " ", "%d", ",", " ", "%Y">>,
     <<"%d", " ", "%B", " ", "%Y">>,
     <<"%d", " ", "%b", " ", "%Y">>,
     <<"%Y", "%m", "%d">> >>

\* A format is a sequence of tokens: a directive ("%Y", "%m", "%d", "%B",
\* "%b") or a literal character.
date_formats ==
  << <<"%Y", "-", "%m", "-", "%d">>,
     <<"%m", "/", "%d", "/", "%Y">>,
     <<"%d", "/", "%m", "/", "%Y">>,
     <<"%Y", "/", "%m", "/", "%d">>,
     <<"%m", "-", "%d", "-", "%Y">>,
     <<"%d", "-", "%m", "-", "%Y">>,
     <<"%B", " ", "%d", ",", " ", "%Y">>,
     <<"%b", " ", "%d", ",", " ", "%Y">>,
     <<"%d", " ", "%B", " ", "%Y">>,
     <<"%d", " ", "%b", " ", "%Y">>,
     <<"%Y", "%m", "%d">> >>

MonthNames ==
  << <<"j", "a", "n", "u", "a", "r", "y">>, <<"f", "e", "b", "r", "u", "a", "r", "y">>, <<"m", "a", "r", "c", "h">>, <<"a", "p", "r", "i", "l">>, <<"m", "a", "y">>, <<"j", "u", "n", "e">>, <<"j", "u", "l", "y">>,
     <<"a", "u", "g", "u", "s", "t">>, <<"s", "e", "p", "t", "e", "m", "b", "e", "r">>, <<"o", "c", "t", "o", "b", "e", "r">>, <<"n", "o", "v", "e", "m", "b", "e", "r">>, <<"d", "e", "c", "e", "m", "b", "e", "r">> >>

MonthAbbrs ==
  << <<"j", "a", "n">>, <<"f", "e", "b">>, <<"m", "a", "r">>, <<"a", "p", "r">>, <<"m", "a", "y">>, <<"j", "u", "n">>, <<"j", "u", "l">>, <<"a", "u", "g">>, <<"s", "e", "p">>,
     <<"o", "c", "t">>, <<"n", "o", "v">>, <<"d", "e", "c">> >>

WeekdayAbbrs == << <<"m", "o", "n">>, <<"t", "u", "e">>, <<"w", "e", "d">>, <<"t", "h", "u">>, <<"f", "r", "i">>, <<"s", "a", "t">>, <<"s", "u", "n">> >>

CharAt(s, pos) == IF pos >= 1 /\ pos <= Len(s) THEN s[pos] ELSE ""

DigitAt(s, pos) == IsDigit(CharAt(s, pos))

InChars(c, chars) == IndexOf(chars, c, 1) # 0

Alt(n, f, v) == [n |-> n, f |-> f, v |-> v]

RECURSIVE SpaceRun(_, _)
SpaceRun(s, pos) == IF IsSpace(CharAt(s, pos)) THEN 1 + SpaceRun(s, pos + 1) ELSE 0

\* The alternatives of one token at a position, in the order the regular
\* expression of the directive tries them.
Alts(tok, s, pos) ==
  LET c1 == CharAt(s, pos)
      c2 == CharAt(s, pos + 1)
      low == LowerStr(s)
  IN
  CASE tok = "%Y" ->
         IF \A k \in 0..3 : DigitAt(s, pos + k)
         THEN << Alt(4, "y", 1000 * DigitVal(c1) + 100 * DigitVal(c2)
                             + 10 * DigitVal(CharAt(s, pos + 2))
                             + DigitVal(CharAt(s, pos + 3))) >>
         ELSE <<>>
    [] tok = "%m" ->
         (IF c1 = "1" /\ InChars(c2, <<"0", "1", "2">>) THEN <<Alt(2, "m", 10 + DigitVal(c2))>> ELSE <<>>)
         \o (IF c1 = "0" /\ InChars(c2, <<"1", "2", "3", "4", "5", "6", "7", "8", "9">>) THEN <<Alt(2, "m", DigitVal(c2))>> ELSE <<>>)
         \o (IF InChars(c1, <<"1", "2", "3", "4", "5", "6", "7", "8", "9">>) THEN <<Alt(1, "m", DigitVal(c1))>> ELSE <<>>)
    [] tok = "%d" ->
         (IF c1 = "3" /\ InChars(c2, <<"0", "1">>) THEN <<Alt(2, "d", 30 + DigitVal(c2))>> ELSE <<>>)
         \o (IF InChars(c1, <<"1", "2">>) /\ IsDigit(c2)
             THEN <<Alt(2, "d", 10 * DigitVal(c1) + DigitVal(c2))>> ELSE <<>>)
         \o (IF c1 = "0" /\ InChars(c2, <<"1", "2", "3", "4", "5", "6", "7", "8", "9">>) THEN <<Alt(2, "d", DigitVal(c2))>> ELSE <<>>)
         \o (IF InChars(c1, <<"1", "2", "3", "4", "5", "6", "7", "8", "9">>) THEN <<Alt(1, "d", DigitVal(c1))>> ELSE <<>>)
         \o (IF c1 = " " /\ InChars(c2, <<"1", "2", "3", "4", "5", "6", "7", "8", "9">>) THEN <<Alt(2, "d", DigitVal(c2))>> ELSE <<>>)
    [] tok = "%B" ->
         LET hits == {k \in 1..12 : StartsAt(low, MonthNames[k], pos)} IN
         IF hits = {} THEN <<>>
         ELSE LET k == CHOOSE h \in hits : TRUE IN <<Alt(Len(MonthNames[k]), "m", k)>>
    [] tok = "%b" ->
         LET hits == {k \in 1..12 : StartsAt(low, MonthAbbrs[k], pos)} IN
         IF hits = {} THEN <<>>
         ELSE LET k == CHOOSE h \in hits : TRUE IN <<Alt(3, "m", k)>>
    [] tok = " " ->
         LET run == SpaceRun(s, pos) IN [a \in 1..run |-> Alt(run + 1 - a, "", 0)]
    [] OTHER -> IF c1 = tok THEN <<Alt(1, "", 0)>> ELSE <<>>

Upd(acc, alt) ==
  CASE alt.f = "y" -> [acc EXCEPT !.y = alt.v]
    [] alt.f = "m" -> [acc EXCEPT !.m = alt.v]
    [] alt.f = "d" -> [acc EXCEPT !.d = alt.v]
    [] OTHER -> acc

NoMatch == [ok |-> FALSE, end |-> 0, y |-> 0, m |-> 0, d |-> 0]

\* re.match of the format's regular expression: first match in backtracking order
RECURSIVE re_match(_, _, _, _, _), re_try(_, _, _, _, _, _, _)
re_match(fmt, k, s, pos, acc) ==
  IF k > Len(fmt) THEN [ok |-> TRUE, end |-> pos, y |-> acc.y, m |-> acc.m, d |-> acc.d]
  ELSE re_try(Alts(fmt[k], s, pos), 1, fmt, k, s, pos, acc)

re_try(alts, a, fmt, k, s, pos, acc) ==
  IF a > Len(alts) THEN NoMatch
  ELSE LET r == re_match(fmt, k + 1, s, pos + alts[a].n, Upd(acc, alts[a])) IN
       IF r.ok THEN r ELSE re_try(alts, a + 1, fmt, k, s, pos, acc)

IsLeap(y) == (y % 4 = 0 /\ y % 100 # 0) \/ y % 400 = 0

DaysInMonth(y, m) ==
  CASE m = 2 -> IF IsLeap(y) THEN 29 ELSE 28
    [] m \in {4, 6, 9, 11} -> 30
    [] OTHER -> 31

NoDate == [ok |-> FALSE, y |-> 0, m |-> 0, d |-> 0]

Date(y, m, d) == [ok |-> TRUE, y |-> y, m |-> m, d |-> d]

\* datetime.strptime(dob_str, fmt); ok = FALSE stands for ValueError
strptime(dob_str, fmt) ==
  LET r == re_match(fmt, 1, dob_str, 1, [y |-> 1900, m |-> 1, d |-> 1]) IN
  IF ~r.ok THEN NoDate
  ELSE IF r.end # Len(dob_str) + 1 THEN NoDate
  ELSE IF r.y < 1 \/ r.d > DaysInMonth(r.y, r.m) THEN NoDate
  ELSE Date(r.y, r.m, r.d)

\* The loop over date_formats: the first format that parses
parse_formats(dob_str) ==
  LET parsing == {n \in 1..Len(date_formats) : strptime(dob_str, date_formats[n]).ok} IN
  IF parsing = {} THEN NoDate ELSE strptime(dob_str, date_formats[MinOf(parsing)])

\* Dates the permissive fallback parser may produce in the model
FallbackDates == {Date(1980, 1, 1), Date(1990, 5, 2)}

\* dateutil.parser.parse is an external library (or missing: ImportError is
\* caught).  Text with no digit, month or weekday abbreviation is rejected;
\* for any other text every outcome is allowed.
dateutil_parse(dob_str) ==
  LET low == LowerStr(dob_str) IN
  IF \/ \E n \in 1..Len(dob_str) : IsDigit(dob_str[n])
     \/ \E k \in 1..12 : Contains(low, MonthAbbrs[k])
     \/ \E k \in 1..7 : Contains(low, WeekdayAbbrs[k])
  THEN {NoDate} \cup FallbackDates
  ELSE {NoDate}

Pad(n, width) ==
  LET ds == [k \in 1..4 |-> Digits[((n \div (10 ^ (4 - k))) % 10) + 1]]
      RECURSIVE Sig(_)
      Sig(k) == IF k < 4 /\ ds[k] = "0" /\ 4 - k >= width THEN Sig(k + 1) ELSE k
  IN SubSeq(ds, Sig(1), 4)

\* parsed_date.strftime("%Y_%m_%d"): the C library's %Y pads a year below 1000
\* to four digits on some platforms and not on others (glibc), so both texts
\* are outcomes
strftime(date) ==
  {Pad(date.y, w) \o <<"_">> \o Pad(date.m, 2) \o <<"_">> \o Pad(date.d, 2) : w \in {1, 4}}

\* The values dob_normalized can take for a found dob value (<<>> is None)
normalize_dob(dob) ==
  IF ~Truthy(dob) THEN {<<>>}
  ELSE LET dob_str == Strip(Str(dob))
           parsed_date == parse_formats(dob_str)
       IN IF parsed_date.ok THEN strftime(parsed_date)
          ELSE UNION {IF pd.ok THEN strftime(pd) ELSE {<<>>} : pd \in dateutil_parse(dob_str)}
(***************************************************************************)
(* Input pages.  ClassifyPDFPagesWorkflow numbers the pages 1..n and sorts *)
(* its result by page_num, so the page at position n has page_num n.       *)
(***************************************************************************)
MaxPages == 3

MaxCardPages == 4

MaxFieldPages == 2

MaxAgainPages == 3

MaxUploaded == 2

MaxRetries == 2

MaxInsurancePages == 2

MaxKeywordPages == 2

MaxMrnPages == 4

MaxTwoCardPages == 3

MaxNamelessPages == 2

MaxPolls == 2

MaxWaitSeconds == 3

MaxPollInterval == 2

MaxRequestTime == 1

Empty == D(<<>>)

JaneIso ==
  D(<< E(<<"f", "i", "r", "s", "t", "_", "n", "a", "m", "e">>, S(<<"J", "a", "n", "e">>)), E(<<"l", "a", "s", "t", "_", "n", "a", "m", "e">>, S(<<"D", "o", "e">>)),
       E(<<"d", "o", "b">>, S(<<"1", "9", "8", "0", "-", "0", "1", "-", "0", "1">>)) >>)

JaneUs ==
  D(<< E(<<"d", "o", "c", "u", "m", "e", "n", "t", "_", "t", "y", "p", "e">>, S(<<"c", "o", "n", "s", "e", "n", "t">>)),
       E(<<"p", "a", "t", "i", "e", "n", "t">>, D(<< E(<<"F", "i", "r", "s", "t", " ", "N", "a", "m", "e">>, S(<<" ", "j", "a", "n", "e">>)),
                          E(<<"L", "a", "s", "t", " ", "N", "a", "m", "e">>, S(<<"D", "O", "E", " ">>)),
                          E(<<"D", "a", "t", "e", " ", "o", "f", " ", "B", "i", "r", "t", "h">>, S(<<"0", "1", "/", "0", "1", "/", "1", "9", "8", "0">>)) >>)) >>)

JaneName ==
  D(<< E(<<"f", "i", "r", "s", "t", "_", "n", "a", "m", "e">>, S(<<"J", "a", "n", "e">>)), E(<<"l", "a", "s", "t", "_", "n", "a", "m", "e">>, S(<<"D", "o", "e">>)),
       E(<<"m", "r", "n">>, S(<<"M", "7">>)) >>)

JanFull ==
  D(<< E(<<"f", "i", "r", "s", "t", "_", "n", "a", "m", "e">>, S(<<"J", "a", "n">>)), E(<<"l", "a", "s", "t", "_", "n", "a", "m", "e">>, S(<<"D", "o", "e">>)),
       E(<<"d", "o", "b">>, S(<<"M", "a", "y", " ", "2", ",", " ", "1", "9", "9", "0">>)), E(<<"m", "r", "n">>, S(<<"M", "7">>)) >>)

MrnDob == D(<< E(<<"m", "r", "n">>, S(<<"M", "7">>)), E(<<"d", "o", "b">>, S(<<"1", "9", "8", "0", "-", "0", "1", "-", "0", "1">>)) >>)

Sched ==
  D(<< E(<<"d", "o", "c", "u", "m", "e", "n", "t", "_", "t", "y", "p", "e">>, S(<<"S", "u", "r", "g", "e", "r", "y", " ", "S", "c", "h", "e", "d", "u", "l", "e">>)),
       E(<<"f", "i", "r", "s", "t", "_", "n", "a", "m", "e">>, S(<<"J", "a", "n", "e">>)), E(<<"l", "a", "s", "t", "_", "n", "a", "m", "e">>, S(<<"D", "o", "e">>)),
       E(<<"d", "o", "b">>, S(<<"1", "9", "8", "0", "-", "0", "1", "-", "0", "1">>)) >>)

AnnDob == D(<< E(<<"f", "i", "r", "s", "t", "_", "n", "a", "m", "e">>, S(<<"A", "n", "n">>)), E(<<"d", "o", "b">>, S(<<"1", "9", "9", "0", "-", "0", "5", "-", "0", "2">>)) >>)

AnnOnly == D(<< E(<<"f", "i", "r", "s", "t", "_", "n", "a", "m", "e">>, S(<<"A", "n", "n">>)) >>)

NgDob == D(<< E(<<"l", "a", "s", "t", "_", "n", "a", "m", "e">>, S(<<"N", "g">>)), E(<<"d", "o", "b">>, S(<<"1", "3", "/", "0", "4", "/", "2", "0", "2", "0">>)) >>)

NgOnly == D(<< E(<<"l", "a", "s", "t", "_", "n", "a", "m", "e">>, S(<<"N", "g">>)) >>)

CardMrn ==
  D(<< E(<<"d", "o", "c", "u", "m", "e", "n", "t", "_", "t", "y", "p", "e">>, S(<<"p", "a", "t", "i", "e", "n", "t", "_", "i", "n", "s", "u", "r", "a", "n", "c", "e", "_", "c", "a", "r", "d">>)), E(<<"m", "r", "n">>, S(<<"K", "9">>)) >>)

NoSignal == D(<< E(<<"d", "o", "c", "u", "m", "e", "n", "t", "_", "t", "y", "p", "e">>, S(<<"o", "t", "h", "e", "r">>)) >>)

Payloads ==
  {Empty, JaneIso, JaneUs, JaneName, JanFull, MrnDob, Sched, AnnDob, AnnOnly,
   NgDob, NgOnly, CardMrn, NoSignal}

\* Further page payloads: deferred pages, unparseable DOB text, payloads that
\* are not mappings, and a card page carrying a name
DobOnly == D(<< E(<<"d", "o", "b">>, S(<<"1", "9", "8", "0", "-", "0", "1", "-", "0", "1">>)) >>)

JonName == D(<< E(<<"f", "i", "r", "s", "t", "_", "n", "a", "m", "e">>, S(<<"J", "o", "n">>)), E(<<"l", "a", "s", "t", "_", "n", "a", "m", "e">>, S(<<"D", "o", "e">>)) >>)

JoeName == D(<< E(<<"f", "i", "r", "s", "t", "_", "n", "a", "m", "e">>, S(<<"J", "o", "e">>)), E(<<"l", "a", "s", "t", "_", "n", "a", "m", "e">>, S(<<"D", "o", "e">>)) >>)

AnnBadDob == D(<< E(<<"f", "i", "r", "s", "t", "_", "n", "a", "m", "e">>, S(<<"A", "n", "n">>)), E(<<"d", "o", "b">>, S(<<"u", "n", "k", "n", "o", "w", "n">>)) >>)

SurgBadDob ==
  D(<< E(<<"d", "o", "c", "u", "m", "e", "n", "t", "_", "t", "y", "p", "e">>, S(<<"s", "u", "r", "g", "e", "r", "y", " ", "n", "o", "t", "e">>)), E(<<"d", "o", "b">>, S(<<"u", "n", "k", "n", "o", "w", "n">>)) >>)

SurgNote == D(<< E(<<"d", "o", "c", "u", "m", "e", "n", "t", "_", "t", "y", "p", "e">>, S(<<"s", "u", "r", "g", "e", "r", "y", " ", "n", "o", "t", "e">>)) >>)

StrPayload == S(<<"f", "r", "e", "e", " ", "t", "e", "x", "t">>)

ListJane == L(<< E(<<>>, JaneIso) >>)

CardZed ==
  D(<< E(<<"d", "o", "c", "u", "m", "e", "n", "t", "_", "t", "y", "p", "e">>, S(<<"p", "a", "t", "i", "e", "n", "t", "_", "i", "n", "s", "u", "r", "a", "n", "c", "e", "_", "c", "a", "r", "d">>)),
       E(<<"f", "i", "r", "s", "t", "_", "n", "a", "m", "e">>, S(<<"Z", "e", "d">>)), E(<<"l", "a", "s", "t", "_", "n", "a", "m", "e">>, S(<<"D", "o", "e">>)) >>)

DeferredPayloads ==
  {Empty, DobOnly, CardMrn, AnnOnly, JonName, JoeName, JaneIso, AnnBadDob,
   SurgBadDob, SurgNote, StrPayload, ListJane}

CardPayloads == {Empty, JaneIso, AnnDob, AnnOnly, CardZed, CardMrn}

\* Dates and the three ways a payload writes one
DobDates ==
  {Date(1990, 5, 2), Date(1980, 1, 1), Date(2000, 2, 29), Date(1999, 12, 31),
   Date(2024, 10, 9), Date(999, 5, 2)}

MonthTitles ==
  << <<"J", "a", "n", "u", "a", "r", "y">>, <<"F", "e", "b", "r", "u", "a", "r", "y">>, <<"M", "a", "r", "c", "h">>, <<"A", "p", "r", "i", "l">>, <<"M", "a", "y">>, <<"J", "u", "n", "e">>, <<"J", "u", "l", "y">>,
     <<"A", "u", "g", "u", "s", "t">>, <<"S", "e", "p", "t", "e", "m", "b", "e", "r">>, <<"O", "c", "t", "o", "b", "e", "r">>, <<"N", "o", "v", "e", "m", "b", "e", "r">>, <<"D", "e", "c", "e", "m", "b", "e", "r">> >>

IsoText(date) == Pad(date.y, 4) \o <<"-">> \o Pad(date.m, 2) \o <<"-">> \o Pad(date.d, 2)

UsText(date) == Pad(date.m, 2) \o <<"/">> \o Pad(date.d, 2) \o <<"/">> \o Pad(date.y, 4)

LongText(date) ==
  MonthTitles[date.m] \o <<" ">> \o Pad(date.d, 1) \o <<",", " ">> \o Pad(date.y, 4)

DobTexts(date) == {IsoText(date), UsText(date), LongText(date)}

DobPayload(text) == D(<< E(<<"f", "i", "r", "s", "t", "_", "n", "a", "m", "e">>, S(<<"A", "n", "n">>)), E(<<"d", "o", "b">>, S(text)) >>)

DobPayloads == {DobPayload(text) : text \in UNION {DobTexts(date) : date \in DobDates}}

\* Slash dates: two fields and a year, the fields written with or without a
\* leading zero
SlashFields == {1, 2, 3, 4, 12, 13, 29, 30, 31}

SlashYears == {2020, 2021}

SlashText(a, b, y, w) == Pad(a, w) \o <<"/">> \o Pad(b, w) \o <<"/">> \o Pad(y, 4)

SlashPayloads ==
  {DobPayload(SlashText(a, b, y, w)) :
     a \in SlashFields, b \in SlashFields, y \in SlashYears, w \in {1, 2}}

\* Nested payloads: a matching key below an earlier key of the same mapping,
\* inside a list, and with a null value
NestFirst ==
  D(<< E(<<"p", "a", "t", "i", "e", "n", "t">>, D(<< E(<<"f", "i", "r", "s", "t", "_", "n", "a", "m", "e">>, S(<<"A", "n", "n">>)) >>)),
       E(<<"f", "i", "r", "s", "t", "_", "n", "a", "m", "e">>, S(<<"J", "a", "n", "e">>)), E(<<"l", "a", "s", "t", "_", "n", "a", "m", "e">>, S(<<"D", "o", "e">>)),
       E(<<"d", "o", "b">>, S(<<"1", "9", "8", "0", "-", "0", "1", "-", "0", "1">>)) >>)

NestDob ==
  D(<< E(<<"f", "i", "r", "s", "t", "_", "n", "a", "m", "e">>, S(<<"A", "n", "n">>)),
       E(<<"v", "i", "s", "i", "t">>, D(<< E(<<"i", "n", "f", "o">>, D(<< E(<<"d", "o", "b">>, S(<<"1", "9", "9", "0", "-", "0", "5", "-", "0", "2">>)) >>)) >>)),
       E(<<"d", "o", "b">>, S(<<"1", "9", "8", "0", "-", "0", "1", "-", "0", "1">>)) >>)

NestList ==
  D(<< E(<<"r", "e", "c", "o", "r", "d", "s">>, L(<< E(<<>>, D(<< E(<<"n", "o", "t", "e">>, S(<<"n", "o", "n", "e">>)) >>)),
                          E(<<>>, D(<< E(<<"m", "r", "n">>, S(<<"K", "9">>)) >>)) >>)),
       E(<<"m", "r", "n">>, S(<<"M", "7">>)), E(<<"d", "o", "b">>, S(<<"1", "9", "8", "0", "-", "0", "1", "-", "0", "1">>)) >>)

NestNull ==
  D(<< E(<<"p", "a", "t", "i", "e", "n", "t">>, D(<< E(<<"f", "i", "r", "s", "t", "_", "n", "a", "m", "e">>, None) >>)),
       E(<<"f", "i", "r", "s", "t", "_", "n", "a", "m", "e">>, S(<<"J", "a", "n", "e">>)), E(<<"l", "a", "s", "t", "_", "n", "a", "m", "e">>, S(<<"D", "o", "e">>)),
       E(<<"d", "o", "b">>, S(<<"1", "9", "8", "0", "-", "0", "1", "-", "0", "1">>)) >>)

NullSibling ==
  D(<< E(<<"p", "a", "t", "i", "e", "n", "t">>, D(<< E(<<"f", "i", "r", "s", "t", "_", "n", "a", "m", "e">>, None), E(<<"f", "n", "a", "m", "e">>, S(<<"A", "n", "n">>)) >>)),
       E(<<"l", "a", "s", "t", "_", "n", "a", "m", "e">>, S(<<"D", "o", "e">>)), E(<<"d", "o", "b">>, S(<<"1", "9", "8", "0", "-", "0", "1", "-", "0", "1">>)) >>)

TopNull ==
  D(<< E(<<"f", "i", "r", "s", "t", "_", "n", "a", "m", "e">>, None),
       E(<<"p", "a", "t", "i", "e", "n", "t">>, D(<< E(<<"f", "i", "r", "s", "t", "_", "n", "a", "m", "e">>, S(<<"A", "n", "n">>)) >>)),
       E(<<"l", "a", "s", "t", "_", "n", "a", "m", "e">>, S(<<"D", "o", "e">>)), E(<<"d", "o", "b">>, S(<<"1", "9", "8", "0", "-", "0", "1", "-", "0", "1">>)) >>)

\* Payloads of the repeated invocations
AgainPayloads ==
  {Empty, NoSignal, Sched, JaneIso, JanFull, JonName, JoeName, AnnOnly, CardZed}

\* Payloads without identity: a secondary keyword in a value, none at all, and
\* an identity key whose value is empty
OperNote == D(<< E(<<"n", "o", "t", "e">>, S(<<"O", "p", "e", "r", "a", "t", "i", "n", "g", " ", "t", "h", "e", "a", "t", "r", "e", " ", "2">>)) >>)

EmptyName == D(<< E(<<"f", "i", "r", "s", "t", "_", "n", "a", "m", "e">>, S(<<>>)), E(<<"n", "o", "t", "e">>, S(<<"a", "f", "t", "e", "r", " ", "s", "u", "r", "g", "e", "r", "y">>)) >>)

KeywordPayloads ==
  {Empty, NoSignal, SurgNote, OperNote, EmptyName, Sched, JaneIso, AnnOnly, StrPayload}

\* An ID card, and an insurance card that names its patient in full
CardId ==
  D(<< E(<<"d", "o", "c", "u", "m", "e", "n", "t", "_", "t", "y", "p", "e">>, S(<<"p", "a", "t", "i", "e", "n", "t", "_", "i", "d", "_", "c", "a", "r", "d">>)), E(<<"l", "a", "s", "t", "_", "n", "a", "m", "e">>, S(<<"N", "g">>)) >>)

JaneCard ==
  D(<< E(<<"d", "o", "c", "u", "m", "e", "n", "t", "_", "t", "y", "p", "e">>, S(<<"P", "a", "t", "i", "e", "n", "t", "_", "I", "n", "s", "u", "r", "a", "n", "c", "e", "_", "C", "a", "r", "d">>)),
       E(<<"f", "i", "r", "s", "t", "_", "n", "a", "m", "e">>, S(<<"J", "a", "n", "e">>)), E(<<"l", "a", "s", "t", "_", "n", "a", "m", "e">>, S(<<"D", "o", "e">>)),
       E(<<"d", "o", "b">>, S(<<"1", "9", "8", "0", "-", "0", "1", "-", "0", "1">>)) >>)

TwoCardPayloads == {JaneIso, AnnOnly, CardZed, CardMrn, CardId, JaneCard}

\* Pages that carry a DOB alone or an MRN alone
DobOther == D(<< E(<<"d", "o", "b">>, S(<<"1", "9", "9", "0", "-", "0", "5", "-", "0", "2">>)) >>)

MrnOther == D(<< E(<<"m", "r", "n">>, S(<<"K", "9">>)) >>)

MrnLong == D(<< E(<<"m", "r", "n">>, S(<<"A", "B", "C", "1", "2", "3">>)) >>)

\* Pages that carry the MRN alone
MrnOnly == D(<< E(<<"m", "r", "n">>, S(<<"M", "7">>)) >>)

MrnLower == D(<< E(<<"m", "r", "n">>, S(<<"m", "7">>)) >>)

MrnPayloads == {JaneIso, JaneName, JanFull, MrnOnly, MrnLower}

NamelessPayloads == {JaneIso, DobOnly, DobOther, MrnOnly, MrnOther, MrnLong}

\* Payloads of the insurance workflow's document
InsurancePayloads == {Sched, JaneIso, AnnDob, CardZed}

FieldPayloads == {Empty, JaneIso, JaneUs, NestFirst, NestDob, NestList, NestNull, NullSibling, TopNull}

AllPayloads ==
  Payloads \cup DeferredPayloads \cup CardPayloads \cup DobPayloads \cup FieldPayloads
  \cup AgainPayloads \cup KeywordPayloads \cup MrnPayloads
  \cup SlashPayloads \cup TwoCardPayloads \cup NamelessPayloads

(***************************************************************************)
(* Per-page part of the first pass: schedule keywords and field            *)
(* extraction.                                                             *)
(***************************************************************************)
primary_keywords ==
  << <<"s", "u", "r", "g", "e", "r", "y", " ", "s", "c", "h", "e", "d", "u", "l", "e">>, <<"s", "c", "h", "e", "d", "u", "l", "e">>, <<"s", "u", "r", "g", "i", "c", "a", "l", " ", "s", "c", "h", "e", "d", "u", "l", "e">>, <<"o", "p", "e", "r", "a", "t", "i", "n", "g", " ", "r", "o", "o", "m">>,
     <<"o", "r", " ", "s", "c", "h", "e", "d", "u", "l", "e">> >>

\* A secondary list of the one word that is also primary
secondary_keywords_short == << <<"s", "c", "h", "e", "d", "u", "l", "e">> >>

secondary_keywords == << <<"s", "c", "h", "e", "d", "u", "l", "e">>, <<"s", "u", "r", "g", "e", "r", "y">>, <<"o", "p", "e", "r", "a", "t", "i", "n", "g">> >>

any_keyword(classification_str, keywords) ==
  \E k \in 1..Len(keywords) : Contains(classification_str, keywords[k])

\* The keyword test on the text as written, without lower()
is_schedule_page_cased(classification_data) ==
  any_keyword(Str(classification_data), primary_keywords)

is_schedule_page(classification_data) ==
  any_keyword(LowerStr(Str(classification_data)), primary_keywords)

\* A name normalisation that strips but keeps the case
normalize_name_cased(name) == IF Truthy(name) THEN Strip(Str(name)) ELSE <<>>

normalize_name(name) == IF Truthy(name) THEN LowerStr(Strip(Str(name))) ELSE <<>>

normalize_mrn(mrn) == IF Truthy(mrn) THEN Strip(Str(mrn)) ELSE <<>>

extract_page(classification_data) ==
  LET first_name == find_field(classification_data, field_mappings.first_name)
      last_name == find_field(classification_data, field_mappings.last_name)
      dob == find_field(classification_data, field_mappings.dob)
      mrn == find_field(classification_data, field_mappings.mrn)
  IN [found |-> Truthy(first_name) \/ Truthy(last_name) \/ Truthy(dob) \/ Truthy(mrn),
      first_name |-> normalize_name(first_name),
      last_name |-> normalize_name(last_name),
      mrn |-> normalize_mrn(mrn),
      dob |-> normalize_dob(dob),
      secondary |-> any_keyword(LowerStr(Str(classification_data)), secondary_keywords)]

\* Evaluated once per payload
PageInfo ==
  [p \in AllPayloads |-> [schedule |-> is_schedule_page(p), x |-> extract_page(p)]]

patient_key_parts(first_name, last_name, dob) ==
  (IF Len(first_name) > 0 THEN <<first_name>> ELSE <<>>)
  \o (IF Len(last_name) > 0 THEN <<last_name>> ELSE <<>>)
  \o (IF Len(dob) > 0 THEN <<dob>> ELSE <<>>)

(***************************************************************************)
(* State                                                                   *)
(***************************************************************************)
VARIABLES
  pages,                  \* classification_results["pages"]
  pc,                     \* the pass being run
  i,                      \* position of the running pass's loop
  surgery_schedule_pages,
  patients,               \* insertion-ordered dict: sequence of [key, pages]
  pages_without_dob,      \* deferred pages
  patient_metadata,       \* key -> [mrn : set, dob]
  patients_to_remove,
  standalone_cards,
  cards_to_remove,
  first_run               \* what an earlier invocation returned

\* The workflows around the grouping activity
VARIABLES
  wf_pc,                  \* the workflow step being run ("none": no workflow)
  wi,                     \* position of the running workflow loop
  max_retries,
  upload_results,         \* page numbers; page n is uploaded as document n
  completed_documents,
  failed_documents,       \* <<page_number, failed_state>>
  retry_attempt,
  retry_tasks,
  still_failed,
  page_results,
  history,                \* per document, the activities scheduled and the state last polled
  grouped_results,
  patients_with_insurance,
  wf_result               \* what the workflow returned

\* One run of poll_document_status_activity
VARIABLES
  poll_pc,                \* "none": no run; "loop", "returned", "raised"
  max_wait_seconds,
  poll_interval_seconds,
  current_time,           \* seconds since start_time
  poll_return             \* what the activity returned

poll_vars == <<poll_pc, max_wait_seconds, poll_interval_seconds, current_time, poll_return>>

NoReturn == [status |-> "none", state |-> "none"]

NoPoll ==
  /\ poll_pc = "none"
  /\ max_wait_seconds = 0
  /\ poll_interval_seconds = 0
  /\ current_time = 0
  /\ poll_return = NoReturn

workflow_vars ==
  <<wf_pc, wi, max_retries, upload_results, completed_documents, failed_documents,
    retry_attempt, retry_tasks, still_failed, page_results, history, grouped_results,
    patients_with_insurance, wf_result>>

vars ==
  <<pages, pc, i, surgery_schedule_pages, patients, pages_without_dob,
    patient_metadata, patients_to_remove, standalone_cards, cards_to_remove,
    first_run, workflow_vars, poll_vars>>

\* Position of key in the dict (0 when absent)
KeyIndex(ps, key, n) ==
  LET hits == {k \in n..Len(ps) : ps[k].key = key} IN
  IF hits = {} THEN 0 ELSE MinOf(hits)

\* An insertion that makes the entry anew even when the key is present
add_page_reset(ps, key, page_num) ==
  LET n == KeyIndex(ps, key, 1) IN
  IF n = 0 THEN Append(ps, [key |-> key, pages |-> <<page_num>>])
  ELSE [ps EXCEPT ![n].pages = <<page_num>>]

\* patients[key]["pages"].append(page_num), after creating the entry if absent
add_page(ps, key, page_num) ==
  LET n == KeyIndex(ps, key, 1) IN
  IF n = 0 THEN Append(ps, [key |-> key, pages |-> <<page_num>>])
  ELSE [ps EXCEPT ![n].pages = Append(@, page_num)]

\* patients[n]["pages"].append(page_num) for the n-th entry
append_page(ps, n, page_num) == [ps EXCEPT ![n].pages = Append(@, page_num)]

\* A match that does not record the page's MRN
add_mrn_none(meta, key, mrn) == meta

add_mrn(meta, key, mrn) ==
  IF Len(mrn) > 0 THEN [meta EXCEPT ![key].mrn = @ \cup {mrn}] ELSE meta

fill_dob(meta, key, dob) ==
  IF Len(dob) > 0 /\ Len(meta[key].dob) = 0 THEN [meta EXCEPT ![key].dob = dob] ELSE meta

\* patient_metadata[key] = {"mrn": set(), "dob": dob}, done when key is not in patients
new_metadata(ps, meta, key, dob) ==
  IF KeyIndex(ps, key, 1) # 0 THEN meta
  ELSE [k \in DOMAIN meta \cup {key} |->
          IF k = key THEN [mrn |-> {}, dob |-> dob] ELSE meta[k]]

grouping_vars ==
  <<pages, pc, i, surgery_schedule_pages, patients, pages_without_dob,
    patient_metadata, patients_to_remove, standalone_cards, cards_to_remove,
    first_run>>

\* The workflow variables at a given step, nothing done yet
WorkflowAt(step, retries) ==
  /\ wf_pc = step
  /\ wi = 1
  /\ max_retries = retries
  /\ upload_results = <<>>
  /\ completed_documents = <<>>
  /\ failed_documents = <<>>
  /\ retry_attempt = 0
  /\ retry_tasks = <<>>
  /\ still_failed = <<>>
  /\ page_results = <<>>
  /\ history = <<>>
  /\ grouped_results = <<>>
  /\ patients_with_insurance = <<>>
  /\ wf_result = <<>>

\* No earlier invocation
NoRun == [kind |-> "none", surgery_schedule |-> <<>>, patients |-> <<>>]

InputPages ==
  {[n \in 1..MaxPages |-> [page_num |-> n, data |-> f[n]]] :
     f \in [1..MaxPages -> Payloads]}

Init ==
  /\ pages \in InputPages
  /\ pc = "first"
  /\ i = 1
  /\ surgery_schedule_pages = <<>>
  /\ patients = <<>>
  /\ pages_without_dob = <<>>
  /\ patient_metadata = <<>>
  /\ patients_to_remove = <<>>
  /\ standalone_cards = <<>>
  /\ cards_to_remove = <<>>
  /\ first_run = NoRun
  /\ WorkflowAt("none", 0)
  /\ NoPoll

\* The same start on other inputs
InitOn(inputs) ==
  /\ pages \in inputs
  /\ pc = "first"
  /\ i = 1
  /\ surgery_schedule_pages = <<>>
  /\ patients = <<>>
  /\ pages_without_dob = <<>>
  /\ patient_metadata = <<>>
  /\ patients_to_remove = <<>>
  /\ standalone_cards = <<>>
  /\ cards_to_remove = <<>>
  /\ first_run = NoRun
  /\ WorkflowAt("none", 0)
  /\ NoPoll

\* The grouping activity run by ClassifyAndGroupPDFPagesWorkflow, itself the
\* child of ClassifyGroupAndExtractInsuranceWorkflow
InitGrouping(inputs) ==
  /\ pages \in inputs
  /\ pc = "first"
  /\ i = 1
  /\ surgery_schedule_pages = <<>>
  /\ patients = <<>>
  /\ pages_without_dob = <<>>
  /\ patient_metadata = <<>>
  /\ patients_to_remove = <<>>
  /\ standalone_cards = <<>>
  /\ cards_to_remove = <<>>
  /\ first_run = NoRun
  /\ WorkflowAt("group", MaxRetries)
  /\ NoPoll

PagesOver(payloads, length) ==
  {[n \in 1..length |-> [page_num |-> n, data |-> f[n]]] :
     f \in [1..length -> payloads]}

InitDeferred == InitOn(PagesOver(DeferredPayloads, MaxPages))

InitCard == InitOn(PagesOver(CardPayloads, MaxCardPages))

InitDob == InitOn(PagesOver(DobPayloads, 1))

InitAgain == InitOn(PagesOver(AgainPayloads, MaxAgainPages))

InitInsurance ==
  InitGrouping(UNION {PagesOver(InsurancePayloads, n) : n \in 1..MaxInsurancePages})

InitKeyword == InitOn(UNION {PagesOver(KeywordPayloads, n) : n \in 1..MaxKeywordPages})

InitMrn == InitOn(UNION {PagesOver(MrnPayloads, n) : n \in 1..MaxMrnPages})

InitSlash == InitOn(PagesOver(SlashPayloads, 1))

InitTwoCard == InitOn(UNION {PagesOver(TwoCardPayloads, n) : n \in 1..MaxTwoCardPages})

InitNameless == InitOn(UNION {PagesOver(NamelessPayloads, n) : n \in 1..MaxNamelessPages})

InitField == InitOn(UNION {PagesOver(FieldPayloads, n) : n \in 1..MaxFieldPages})

(***************************************************************************)
(* First pass: one page per step.                                          *)
(***************************************************************************)
\* The body of the loop for one page; info is PageInfo of its payload
first_pass_page(page_num, classification_data, info) ==
  IF ~Truthy(classification_data)
  THEN UNCHANGED <<surgery_schedule_pages, patients, pages_without_dob,
                   patient_metadata>>
  ELSE IF info.schedule
  THEN /\ surgery_schedule_pages' = Append(surgery_schedule_pages, page_num)
       /\ UNCHANGED <<patients, pages_without_dob, patient_metadata>>
  ELSE IF ~info.x.found
  THEN /\ surgery_schedule_pages' =
            IF info.x.secondary THEN Append(surgery_schedule_pages, page_num)
            ELSE surgery_schedule_pages
       /\ UNCHANGED <<patients, pages_without_dob, patient_metadata>>
  ELSE \E dob_normalized \in info.x.dob :
       LET parts == patient_key_parts(info.x.first_name, info.x.last_name, dob_normalized)
           patient_key == Join(parts, "_")
           entry == <<page_num, info.x.first_name, info.x.last_name, info.x.mrn, dob_normalized>>
       IN
       /\ UNCHANGED surgery_schedule_pages
       /\ IF Len(parts) > 0
          THEN IF Len(dob_normalized) > 0
                  /\ (Len(info.x.first_name) > 0 \/ Len(info.x.last_name) > 0)
               THEN /\ patients' = add_page(patients, patient_key, page_num)
                    /\ patient_metadata' =
                         add_mrn(new_metadata(patients, patient_metadata,
                                              patient_key, dob_normalized),
                                 patient_key, info.x.mrn)
                    /\ UNCHANGED pages_without_dob
               ELSE /\ pages_without_dob' = Append(pages_without_dob, entry)
                    /\ UNCHANGED <<patients, patient_metadata>>
          ELSE IF Len(info.x.mrn) > 0 \/ Len(dob_normalized) > 0
               THEN /\ pages_without_dob' = Append(pages_without_dob, entry)
                    /\ UNCHANGED <<patients, patient_metadata>>
               ELSE UNCHANGED <<patients, pages_without_dob, patient_metadata>>

FirstPass ==
  /\ pc = "first"
  /\ UNCHANGED <<workflow_vars, poll_vars, first_run, pages, patients_to_remove, standalone_cards, cards_to_remove>>
  /\ IF i > Len(pages)
     THEN /\ pc' = "second"
          /\ i' = 1
          /\ UNCHANGED <<surgery_schedule_pages, patients, pages_without_dob,
                         patient_metadata>>
     ELSE /\ pc' = pc
          /\ i' = i + 1
          /\ first_pass_page(pages[i].page_num, pages[i].data, PageInfo[pages[i].data])
(***************************************************************************)
(* Second pass: one deferred page per step.                                *)
(***************************************************************************)
\* A name test that reads the last name one part too far
name_match_shifted(first_name, last_name, patient_key) ==
  LET key_parts == Split(patient_key, "_") IN
  /\ Len(key_parts) >= 3
  /\ LET key_first == key_parts[1]
         key_last == key_parts[3]
     IN IF Len(first_name) > 0 /\ Len(key_first) > 0 /\ first_name = key_first
        THEN \/ Len(last_name) > 0 /\ Len(key_last) > 0 /\ last_name = key_last
             \/ Len(last_name) = 0 /\ Len(key_last) = 0
        ELSE /\ Len(first_name) = 0 /\ Len(key_first) = 0
             /\ Len(last_name) > 0 /\ Len(key_last) > 0
             /\ last_name = key_last

\* The name test of the second pass against one patient key
name_match(first_name, last_name, patient_key) ==
  LET key_parts == Split(patient_key, "_") IN
  /\ Len(key_parts) >= 3
  /\ LET key_first == key_parts[1]
         key_last == key_parts[2]
     IN IF Len(first_name) > 0 /\ Len(key_first) > 0 /\ first_name = key_first
        THEN \/ Len(last_name) > 0 /\ Len(key_last) > 0 /\ last_name = key_last
             \/ Len(last_name) = 0 /\ Len(key_last) = 0
        ELSE /\ Len(first_name) = 0 /\ Len(key_first) = 0
             /\ Len(last_name) > 0 /\ Len(key_last) > 0
             /\ last_name = key_last

name_candidates(ps, first_name, last_name) ==
  {n \in 1..Len(ps) : name_match(first_name, last_name, ps[n].key)}

mrn_candidates(ps, meta, mrn) ==
  IF Len(mrn) > 0 THEN {n \in 1..Len(ps) : mrn \in meta[ps[n].key].mrn} ELSE {}

dob_candidates(ps, meta, dob) ==
  IF Len(dob) > 0
  THEN {n \in 1..Len(ps) : Len(meta[ps[n].key].dob) > 0 /\ meta[ps[n].key].dob = dob}
  ELSE {}

\* A rule order that tries the MRN before the name
match_rule_mrn_first(ps, meta, first_name, last_name, mrn, dob) ==
  IF mrn_candidates(ps, meta, mrn) # {} THEN "mrn"
  ELSE IF name_candidates(ps, first_name, last_name) # {} THEN "name"
  ELSE IF dob_candidates(ps, meta, dob) # {} THEN "dob"
  ELSE "new"

\* Which rule places a deferred page: the first one whose scan finds a group
match_rule(ps, meta, first_name, last_name, mrn, dob) ==
  IF name_candidates(ps, first_name, last_name) # {} THEN "name"
  ELSE IF mrn_candidates(ps, meta, mrn) # {} THEN "mrn"
  ELSE IF dob_candidates(ps, meta, dob) # {} THEN "dob"
  ELSE "new"

\* A key built from a name or an MRN only
new_patient_key_no_dob(first_name, last_name, mrn, dob) ==
  LET parts == patient_key_parts(first_name, last_name, <<>>) IN
  IF Len(parts) > 0 THEN Join(parts, "_")
  ELSE IF Len(mrn) > 0 THEN <<"m", "r", "n", "_">> \o mrn
  ELSE <<>>

new_patient_key(first_name, last_name, mrn, dob) ==
  LET parts == patient_key_parts(first_name, last_name, <<>>) IN
  IF Len(parts) > 0 THEN Join(parts, "_")
  ELSE IF Len(mrn) > 0 THEN <<"m", "r", "n", "_">> \o mrn
  ELSE IF Len(dob) > 0 THEN <<"d", "o", "b", "_">> \o dob
  ELSE <<>>

SecondPass ==
  /\ pc = "second"
  /\ UNCHANGED <<workflow_vars, poll_vars, first_run, pages, surgery_schedule_pages, pages_without_dob, patients_to_remove,
                 standalone_cards, cards_to_remove>>
  /\ IF i > Len(pages_without_dob)
     THEN /\ pc' = "third"
          /\ i' = 1
          /\ UNCHANGED <<patients, patient_metadata>>
     ELSE LET page_num == pages_without_dob[i][1]
              first_name == pages_without_dob[i][2]
              last_name == pages_without_dob[i][3]
              mrn == pages_without_dob[i][4]
              dob == pages_without_dob[i][5]
              rule == match_rule(patients, patient_metadata, first_name, last_name, mrn, dob)
          IN
          /\ pc' = pc
          /\ i' = i + 1
          /\ CASE rule = "name" ->
                    LET n == MinOf(name_candidates(patients, first_name, last_name))
                        key == patients[n].key
                    IN /\ patients' = append_page(patients, n, page_num)
                       /\ patient_metadata' =
                            fill_dob(add_mrn(patient_metadata, key, mrn), key, dob)
               [] rule = "mrn" ->
                    LET n == MinOf(mrn_candidates(patients, patient_metadata, mrn))
                        key == patients[n].key
                    IN /\ patients' = append_page(patients, n, page_num)
                       /\ patient_metadata' = fill_dob(patient_metadata, key, dob)
               [] rule = "dob" ->
                    LET n == MinOf(dob_candidates(patients, patient_metadata, dob))
                        key == patients[n].key
                    IN /\ patients' = append_page(patients, n, page_num)
                       /\ patient_metadata' = add_mrn(patient_metadata, key, mrn)
               [] OTHER ->
                    LET patient_key == new_patient_key(first_name, last_name, mrn, dob) IN
                    IF Len(patient_key) = 0
                    THEN UNCHANGED <<patients, patient_metadata>>
                    ELSE /\ patients' = add_page(patients, patient_key, page_num)
                         /\ patient_metadata' =
                              add_mrn(new_metadata(patients, patient_metadata,
                                                   patient_key, dob),
                                      patient_key, mrn)

(***************************************************************************)
(* Third pass: fuzzy merge of standalone patients by name.                 *)
(***************************************************************************)
\* The inner loop of one row.  The loop sets
\*   current_row[j + 1] = min(previous_row[j + 1] + 1, current_row[j] + 1,
\*                            previous_row[j] + (c1 != c2))
\* so each entry is the least, over the entries k at or before it, of the
\* value entry k gets without the current_row[j] + 1 term plus the number of
\* +1 steps from k to it.
levenshtein_row(previous_row, first, c1, s2) ==
  LET base(k) ==
        IF k = 1 THEN first
        ELSE Min2(previous_row[k] + 1,
                  previous_row[k - 1] + (IF c1 # s2[k - 1] THEN 1 ELSE 0))
  IN Materialize([m \in 1..(Len(s2) + 1) |-> MinOf({base(k) + (m - k) : k \in 1..m})])

\* The outer loop over the characters of s1; a row always has Len(s2) + 1
\* entries, and testing that makes each row be computed before the next
RECURSIVE levenshtein_rows(_, _, _, _)
levenshtein_rows(previous_row, s1, s2, n) ==
  IF Len(previous_row) # Len(s2) + 1 \/ n > Len(s1) THEN previous_row
  ELSE levenshtein_rows(levenshtein_row(previous_row, n, s1[n], s2), s1, s2, n + 1)

levenshtein_distance(s1, s2) ==
  LET a == IF Len(s1) < Len(s2) THEN s2 ELSE s1
      b == IF Len(s1) < Len(s2) THEN s1 ELSE s2
  IN IF Len(b) = 0 THEN Len(a)
     ELSE levenshtein_rows(Materialize([j \in 1..(Len(b) + 1) |-> j - 1]), a, b, 1)[Len(b) + 1]

\* The last three parts of a key look like YYYY_MM_DD
has_dob_suffix(parts) ==
  /\ Len(parts) >= 4
  /\ \A k \in (Len(parts) - 2)..Len(parts) : IsDigitStr(parts[k])
  /\ Len(parts[Len(parts) - 2]) = 4

\* A name string that keeps the DOB suffix of the key
extract_name_string_whole(patient_key) == Join(Split(patient_key, "_"), "_")

extract_name_string(patient_key) ==
  LET parts == Split(patient_key, "_") IN
  IF has_dob_suffix(parts) THEN Join(SubSeq(parts, 1, Len(parts) - 3), "_")
  ELSE Join(parts, "_")

\* The first other group at the least distance, when that distance is <= 2
\* (0 when there is none)
RECURSIVE fuzzy_scan(_, _, _, _, _, _)
fuzzy_scan(ps, standalone, standalone_name, n, best_match, best_distance) ==
  IF n > Len(ps) THEN best_match
  ELSE IF n = standalone
  THEN fuzzy_scan(ps, standalone, standalone_name, n + 1, best_match, best_distance)
  ELSE LET other_name == LowerStr(extract_name_string(ps[n].key))
           distance == levenshtein_distance(standalone_name, other_name)
       IN IF distance <= 2 /\ (best_match = 0 \/ distance < best_distance)
          THEN fuzzy_scan(ps, standalone, standalone_name, n + 1, n, distance)
          ELSE fuzzy_scan(ps, standalone, standalone_name, n + 1, best_match, best_distance)

\* A best match without the threshold: the first nearest other group
fuzzy_best_match_nearest(ps, standalone) ==
  LET standalone_name == LowerStr(extract_name_string(ps[standalone].key))
      others == (1..Len(ps)) \ {standalone}
      distance == Materialize([n \in 1..Len(ps) |->
                    levenshtein_distance(standalone_name,
                                         LowerStr(extract_name_string(ps[n].key)))])
      nearest == {n \in others : \A m \in others : distance[n] <= distance[m]}
  IN IF others = {} THEN 0 ELSE MinOf(nearest)

\* A best match that accepts a distance of at most 1
fuzzy_best_match_one(ps, standalone) ==
  LET standalone_name == LowerStr(extract_name_string(ps[standalone].key))
      best_match == fuzzy_scan(ps, standalone, standalone_name, 1, 0, 0)
  IN IF best_match = 0 THEN 0
     ELSE IF levenshtein_distance(standalone_name,
                                  LowerStr(extract_name_string(ps[best_match].key))) <= 1
     THEN best_match
     ELSE 0

fuzzy_best_match(ps, standalone) ==
  fuzzy_scan(ps, standalone, LowerStr(extract_name_string(ps[standalone].key)), 1, 0, 0)

extend_pages_rekeyed(ps, best_match, more) ==
  [ps EXCEPT ![best_match] = [key |-> @.key \o <<"_", "m", "e", "r", "g", "e", "d">>, pages |-> @.pages \o more]]

\* patients[best_match]["pages"].extend(pages)
extend_pages(ps, best_match, more) == [ps EXCEPT ![best_match].pages = @ \o more]

\* A removal that leaves the merged group in place
del_key_kept(ps, key) == ps

\* del patients[key]
del_key(ps, key) == SelectSeq(ps, LAMBDA g : g.key # key)

ThirdPass ==
  /\ pc = "third"
  /\ UNCHANGED <<workflow_vars, poll_vars, first_run, pages, surgery_schedule_pages, pages_without_dob, patient_metadata,
                 standalone_cards, cards_to_remove>>
  /\ IF i > Len(patients)
     THEN /\ pc' = "third_remove"
          /\ i' = 1
          /\ UNCHANGED <<patients, patients_to_remove>>
     ELSE /\ pc' = pc
          /\ i' = i + 1
          /\ IF Len(patients[i].pages) # 1
             THEN UNCHANGED <<patients, patients_to_remove>>
             ELSE LET best_match == fuzzy_best_match(patients, i) IN
                  IF best_match = 0
                  THEN UNCHANGED <<patients, patients_to_remove>>
                  ELSE /\ patients' = extend_pages(patients, best_match, patients[i].pages)
                       /\ patients_to_remove' = Append(patients_to_remove, patients[i].key)

ThirdPassRemove ==
  /\ pc = "third_remove"
  /\ UNCHANGED <<workflow_vars, poll_vars, first_run, pages, surgery_schedule_pages, pages_without_dob, patient_metadata,
                 patients_to_remove, standalone_cards, cards_to_remove>>
  /\ IF i > Len(patients_to_remove)
     THEN /\ pc' = "fourth_find"
          /\ i' = 1
          /\ UNCHANGED patients
     ELSE /\ pc' = pc
          /\ i' = i + 1
          /\ patients' = del_key(patients, patients_to_remove[i])

(***************************************************************************)
(* Fourth pass: merge standalone insurance / ID cards into a neighbouring  *)
(* group.                                                                  *)
(***************************************************************************)
card_types == {<<"p", "a", "t", "i", "e", "n", "t", "_", "i", "n", "s", "u", "r", "a", "n", "c", "e", "_", "c", "a", "r", "d">>, <<"p", "a", "t", "i", "e", "n", "t", "_", "i", "d", "_", "c", "a", "r", "d">>}

\* A lookup by position in the input instead of by page number
page_data_map_by_position(pgs, page_num) ==
  IF page_num \in 1..Len(pgs) THEN pgs[page_num].data ELSE None

\* page_data_map.get(page_num): the last page carrying that page_num
page_data_map(pgs, page_num) ==
  LET hits == {n \in 1..Len(pgs) : pgs[n].page_num = page_num} IN
  IF hits = {} THEN None ELSE pgs[MaxOf(hits)].data

\* classification_data.get("document_type", "") of a mapping payload
document_type_value(classification_data) ==
  DictGet(classification_data.items, <<"d", "o", "c", "u", "m", "e", "n", "t", "_", "t", "y", "p", "e">>, S(<<>>), 1)

\* .lower() raises AttributeError on a document_type that is not a str
get_document_type_raises(pgs, page_num) ==
  LET classification_data == page_data_map(pgs, page_num) IN
  /\ Truthy(classification_data)
  /\ classification_data.t = "dict"
  /\ document_type_value(classification_data).t # "str"

\* <<>> stands for None (no page data, or a payload that is not a mapping)
get_document_type(pgs, page_num) ==
  LET classification_data == page_data_map(pgs, page_num) IN
  IF Truthy(classification_data) /\ classification_data.t = "dict"
  THEN LowerStr(document_type_value(classification_data).s)
  ELSE <<>>

\* A test that finds no card in any group
has_insurance_or_id_card_never(pgs, patient_pages, n) == "no"

\* "yes", "no", or "raise" when a page scanned before the first card raises
RECURSIVE has_insurance_or_id_card(_, _, _)
has_insurance_or_id_card(pgs, patient_pages, n) ==
  IF n > Len(patient_pages) THEN "no"
  ELSE IF get_document_type_raises(pgs, patient_pages[n]) THEN "raise"
  ELSE IF get_document_type(pgs, patient_pages[n]) \in card_types THEN "yes"
  ELSE has_insurance_or_id_card(pgs, patient_pages, n + 1)

extract_last_name(patient_key) ==
  LET parts == Split(patient_key, "_") IN
  IF has_dob_suffix(parts) /\ Len(parts) >= 5 THEN LowerStr(parts[2])
  ELSE IF has_dob_suffix(parts) THEN <<>>
  ELSE IF Len(parts) >= 2 THEN LowerStr(parts[2])
  ELSE <<>>

\* A search that takes every group whose first page is a card, whatever
\* the number of its pages
RECURSIVE find_standalone_cards_any_length(_, _, _)
find_standalone_cards_any_length(pgs, ps, n) ==
  IF n > Len(ps) THEN <<>>
  ELSE (IF Len(ps[n].pages) >= 1 /\ get_document_type(pgs, ps[n].pages[1]) \in card_types
        THEN << <<ps[n].key, ps[n].pages[1], get_document_type(pgs, ps[n].pages[1])>> >>
        ELSE <<>>)
       \o find_standalone_cards_any_length(pgs, ps, n + 1)

\* The groups of exactly one page, that page being a card, in dict order
RECURSIVE find_standalone_cards(_, _, _)
find_standalone_cards(pgs, ps, n) ==
  IF n > Len(ps) THEN <<>>
  ELSE (IF Len(ps[n].pages) = 1 /\ get_document_type(pgs, ps[n].pages[1]) \in card_types
        THEN << <<ps[n].key, ps[n].pages[1], get_document_type(pgs, ps[n].pages[1])>> >>
        ELSE <<>>)
       \o find_standalone_cards(pgs, ps, n + 1)

find_standalone_cards_raises(pgs, ps) ==
  \E n \in 1..Len(ps) :
    Len(ps[n].pages) = 1 /\ get_document_type_raises(pgs, ps[n].pages[1])

PageSet(group_pages) == {group_pages[n] : n \in 1..Len(group_pages)}

\* A scan without the rule for a card inside a group's page range
RECURSIVE card_scan_no_middle(_, _, _, _, _, _, _)
card_scan_no_middle(pgs, ps, standalone_key, card_page_num, n, best_match, match_priority) ==
  IF n > Len(ps) THEN [best_match |-> best_match, match_priority |-> match_priority]
  ELSE IF ps[n].key = standalone_key
  THEN card_scan_no_middle(pgs, ps, standalone_key, card_page_num, n + 1, best_match, match_priority)
  ELSE LET other_pages == ps[n].pages
           has_card == has_insurance_or_id_card(pgs, other_pages, 1)
           min_page == MinOf(PageSet(other_pages))
           max_page == MaxOf(PageSet(other_pages))
           card_last_name == extract_last_name(standalone_key)
           other_last_name == extract_last_name(ps[n].key)
           adjacent == card_page_num = min_page - 1 \/ card_page_num = max_page + 1
           surname == /\ Len(card_last_name) > 0 /\ Len(other_last_name) > 0
                      /\ card_last_name = other_last_name
           after_adjacent == IF adjacent /\ match_priority < 2
                             THEN [best_match |-> n, match_priority |-> 2]
                             ELSE [best_match |-> best_match,
                                   match_priority |-> match_priority]
           after_surname == IF surname /\ after_adjacent.match_priority < 1
                            THEN [best_match |-> n, match_priority |-> 1]
                            ELSE after_adjacent
       IN IF has_card = "raise" THEN [best_match |-> -1, match_priority |-> 0]
          ELSE IF has_card = "yes"
          THEN card_scan_no_middle(pgs, ps, standalone_key, card_page_num, n + 1, best_match,
                         match_priority)
          ELSE card_scan_no_middle(pgs, ps, standalone_key, card_page_num, n + 1,
                         after_surname.best_match, after_surname.match_priority)

\* A scan in which an adjacent group does not displace an earlier surname match
RECURSIVE card_scan_first_found(_, _, _, _, _, _, _)
card_scan_first_found(pgs, ps, standalone_key, card_page_num, n, best_match, match_priority) ==
  IF n > Len(ps) THEN [best_match |-> best_match, match_priority |-> match_priority]
  ELSE IF ps[n].key = standalone_key
  THEN card_scan_first_found(pgs, ps, standalone_key, card_page_num, n + 1, best_match, match_priority)
  ELSE LET other_pages == ps[n].pages
           has_card == has_insurance_or_id_card(pgs, other_pages, 1)
           min_page == MinOf(PageSet(other_pages))
           max_page == MaxOf(PageSet(other_pages))
           card_last_name == extract_last_name(standalone_key)
           other_last_name == extract_last_name(ps[n].key)
           adjacent == card_page_num = min_page - 1 \/ card_page_num = max_page + 1
           surname == /\ Len(card_last_name) > 0 /\ Len(other_last_name) > 0
                      /\ card_last_name = other_last_name
           after_adjacent == IF adjacent /\ match_priority < 1
                             THEN [best_match |-> n, match_priority |-> 2]
                             ELSE [best_match |-> best_match,
                                   match_priority |-> match_priority]
           after_surname == IF surname /\ after_adjacent.match_priority < 1
                            THEN [best_match |-> n, match_priority |-> 1]
                            ELSE after_adjacent
       IN IF has_card = "raise" THEN [best_match |-> -1, match_priority |-> 0]
          ELSE IF has_card = "yes"
          THEN card_scan_first_found(pgs, ps, standalone_key, card_page_num, n + 1, best_match,
                         match_priority)
          ELSE IF min_page < card_page_num /\ card_page_num < max_page
          THEN [best_match |-> n, match_priority |-> 3]
          ELSE card_scan_first_found(pgs, ps, standalone_key, card_page_num, n + 1,
                         after_surname.best_match, after_surname.match_priority)

\* The scan over the other groups for one card: the result is
\* [best_match (0: none, -1: raised), match_priority]
RECURSIVE card_scan(_, _, _, _, _, _, _)
card_scan(pgs, ps, standalone_key, card_page_num, n, best_match, match_priority) ==
  IF n > Len(ps) THEN [best_match |-> best_match, match_priority |-> match_priority]
  ELSE IF ps[n].key = standalone_key
  THEN card_scan(pgs, ps, standalone_key, card_page_num, n + 1, best_match, match_priority)
  ELSE LET other_pages == ps[n].pages
           has_card == has_insurance_or_id_card(pgs, other_pages, 1)
           min_page == MinOf(PageSet(other_pages))
           max_page == MaxOf(PageSet(other_pages))
           card_last_name == extract_last_name(standalone_key)
           other_last_name == extract_last_name(ps[n].key)
           adjacent == card_page_num = min_page - 1 \/ card_page_num = max_page + 1
           surname == /\ Len(card_last_name) > 0 /\ Len(other_last_name) > 0
                      /\ card_last_name = other_last_name
           after_adjacent == IF adjacent /\ match_priority < 2
                             THEN [best_match |-> n, match_priority |-> 2]
                             ELSE [best_match |-> best_match,
                                   match_priority |-> match_priority]
           after_surname == IF surname /\ after_adjacent.match_priority < 1
                            THEN [best_match |-> n, match_priority |-> 1]
                            ELSE after_adjacent
       IN IF has_card = "raise" THEN [best_match |-> -1, match_priority |-> 0]
          ELSE IF has_card = "yes"
          THEN card_scan(pgs, ps, standalone_key, card_page_num, n + 1, best_match,
                         match_priority)
          ELSE IF min_page < card_page_num /\ card_page_num < max_page
          THEN [best_match |-> n, match_priority |-> 3]
          ELSE card_scan(pgs, ps, standalone_key, card_page_num, n + 1,
                         after_surname.best_match, after_surname.match_priority)

FourthPassFind ==
  /\ pc = "fourth_find"
  /\ UNCHANGED <<workflow_vars, poll_vars, first_run, pages, surgery_schedule_pages, patients, pages_without_dob,
                 patient_metadata, patients_to_remove, cards_to_remove>>
  /\ i' = 1
  /\ IF find_standalone_cards_raises(pages, patients)
     THEN pc' = "error" /\ UNCHANGED standalone_cards
     ELSE pc' = "fourth" /\ standalone_cards' = find_standalone_cards(pages, patients, 1)

FourthPass ==
  /\ pc = "fourth"
  /\ UNCHANGED <<workflow_vars, poll_vars, first_run, pages, surgery_schedule_pages, pages_without_dob, patient_metadata,
                 patients_to_remove, standalone_cards>>
  /\ IF i > Len(standalone_cards)
     THEN /\ pc' = "fourth_remove"
          /\ i' = 1
          /\ UNCHANGED <<patients, cards_to_remove>>
     ELSE LET standalone_key == standalone_cards[i][1]
              card_page_num == standalone_cards[i][2]
              scan == card_scan(pages, patients, standalone_key, card_page_num, 1, 0, 0)
          IN
          /\ i' = i + 1
          /\ IF scan.best_match = -1
             THEN pc' = "error" /\ UNCHANGED <<patients, cards_to_remove>>
             ELSE /\ pc' = pc
                  /\ IF scan.best_match = 0
                     THEN UNCHANGED <<patients, cards_to_remove>>
                     ELSE /\ patients' = append_page(patients, scan.best_match, card_page_num)
                          /\ cards_to_remove' = Append(cards_to_remove, standalone_key)

FourthPassRemove ==
  /\ pc = "fourth_remove"
  /\ UNCHANGED <<workflow_vars, poll_vars, first_run, pages, surgery_schedule_pages, pages_without_dob, patient_metadata,
                 patients_to_remove, standalone_cards, cards_to_remove>>
  /\ IF i > Len(cards_to_remove)
     THEN /\ pc' = "sort"
          /\ i' = 1
          /\ UNCHANGED patients
     ELSE /\ pc' = pc
          /\ i' = i + 1
          /\ patients' = del_key(patients, cards_to_remove[i])

(***************************************************************************)
(* Final sort and return.                                                  *)
(***************************************************************************)
\* A sort that leaves the append order
sort_unsorted(seq) == seq

RECURSIVE sort(_)
sort(seq) ==
  IF Len(seq) = 0 THEN <<>>
  ELSE LET m == MinOf({seq[n] : n \in 1..Len(seq)})
           k == MinOf({n \in 1..Len(seq) : seq[n] = m})
       IN <<m>> \o sort(SubSeq(seq, 1, k - 1) \o SubSeq(seq, k + 1, Len(seq)))

SortAndReturn ==
  /\ pc = "sort"
  /\ UNCHANGED <<workflow_vars, poll_vars, first_run, pages, i, pages_without_dob, patient_metadata, patients_to_remove,
                 standalone_cards, cards_to_remove>>
  /\ surgery_schedule_pages' = sort(surgery_schedule_pages)
  /\ patients' = [n \in 1..Len(patients) |-> [patients[n] EXCEPT !.pages = sort(@)]]
  /\ pc' = "done"


(***************************************************************************)
(* A second invocation of the activity, on the same input or on the pages  *)
(* the first invocation returned.                                          *)
(***************************************************************************)
result ==
  [surgery_schedule |-> surgery_schedule_pages, patients |-> patients]

\* The page numbers in a result
ResultPages(r) ==
  PageSet(r.surgery_schedule)
  \cup UNION {PageSet(r.patients[g].pages) : g \in 1..Len(r.patients)}

\* An invocation that starts from the groups of the one before
invoke_keeping_groups(kind, input) ==
  /\ pc = "done"
  /\ first_run = NoRun
  /\ UNCHANGED <<workflow_vars, poll_vars>>
  /\ first_run' = [kind |-> kind, surgery_schedule |-> result.surgery_schedule,
                   patients |-> result.patients]
  /\ pages' = input
  /\ pc' = "first"
  /\ i' = 1
  /\ surgery_schedule_pages' = <<>>
  /\ UNCHANGED <<patients, patient_metadata>>
  /\ pages_without_dob' = <<>>
  /\ patients_to_remove' = <<>>
  /\ standalone_cards' = <<>>
  /\ cards_to_remove' = <<>>

\* A fresh invocation on the given pages, the earlier result being kept
Invoke(kind, input) ==
  /\ pc = "done"
  /\ first_run = NoRun
  /\ UNCHANGED <<workflow_vars, poll_vars>>
  /\ first_run' = [kind |-> kind, surgery_schedule |-> result.surgery_schedule,
                   patients |-> result.patients]
  /\ pages' = input
  /\ pc' = "first"
  /\ i' = 1
  /\ surgery_schedule_pages' = <<>>
  /\ patients' = <<>>
  /\ pages_without_dob' = <<>>
  /\ patient_metadata' = <<>>
  /\ patients_to_remove' = <<>>
  /\ standalone_cards' = <<>>
  /\ cards_to_remove' = <<>>

InvokeAgain == Invoke("same", pages)

InvokeOnOutput ==
  Invoke("output", SelectSeq(pages, LAMBDA p : p.page_num \in ResultPages(result)))

(***************************************************************************)
(* ClassifyPDFPagesWorkflow: poll every uploaded page, retry the failed    *)
(* documents, retrieve the results.                                        *)
(***************************************************************************)
\* The states poll_document_status_activity takes for completed
COMPLETED_STATES == {"ocr_completed", "llm_completed"}

\* What poll_document_status_activity returns
poll_document_status_activity ==
  {[status |-> "completed", state |-> state] : state \in COMPLETED_STATES} \cup
  {[status |-> "failed", state |-> "ocr_failed"],
   [status |-> "failed", state |-> "ocr_failed"],
   [status |-> "failed", state |-> "llm_failed"],
   [status |-> "failed", state |-> "not_found"],
   [status |-> "timeout", state |-> "unknown"]}

\* The activity ended in an error
Raised == [status |-> "raised"]

\* What retry_failed_document_activity returns for a failed state
retry_failed_document_activity(failed_state) ==
  CASE failed_state = "llm_failed" -> {[status |-> "retry_triggered"], Raised}
    [] failed_state = "ocr_failed" -> {[status |-> "wait_and_check"]}
    [] OTHER -> {[status |-> "unknown_state"]}

\* What the classifier holds for the document of a page
ClassificationOf(page_number) == IF page_number % 2 = 1 THEN JaneIso ELSE Sched

\* result.get("updated_llm_result", {}) if result else {}, and {} on an error
get_classification_result(page_number) == {ClassificationOf(page_number), Empty}

Schedule(tasks, doc, kind) ==
  [tasks EXCEPT ![doc] = [@ EXCEPT ![kind] = @ + 1]]

\* The state of the document that a poll reported
Observe(tasks, doc, state) == [tasks EXCEPT ![doc].state = state]

RECURSIVE ScheduleAll(_, _, _, _)
ScheduleAll(tasks, docs, n, kind) ==
  IF n > Len(docs) THEN tasks
  ELSE ScheduleAll(Schedule(tasks, docs[n][1], kind), docs, n + 1, kind)

ClassifyStart ==
  /\ wf_pc = "classify"
  /\ UNCHANGED <<grouping_vars, poll_vars, max_retries, completed_documents, failed_documents,
                 retry_attempt, retry_tasks, still_failed, page_results,
                 grouped_results, patients_with_insurance, wf_result>>
  /\ wi' = 1
  /\ \E tag_id \in BOOLEAN, prompt_revid \in BOOLEAN, total_pages \in 0..MaxUploaded :
       IF ~tag_id \/ ~prompt_revid
       THEN wf_pc' = "raised" /\ UNCHANGED <<upload_results, history>>
       ELSE /\ wf_pc' = "first_poll"
            /\ upload_results' = [n \in 1..total_pages |-> n]
            /\ history' = [n \in 1..total_pages |->
                             [poll |-> 1, retry |-> 0, result |-> 0, state |-> "uploaded"]]

AwaitFirstPoll ==
  /\ wf_pc = "first_poll"
  /\ UNCHANGED <<grouping_vars, poll_vars, max_retries, upload_results, retry_attempt, retry_tasks,
                 still_failed, page_results, grouped_results,
                 patients_with_insurance, wf_result>>
  /\ IF wi > Len(upload_results)
     THEN /\ wf_pc' = "retry_loop"
          /\ wi' = 1
          /\ UNCHANGED <<completed_documents, failed_documents, history>>
     ELSE LET page_number == upload_results[wi] IN
          /\ wi' = wi + 1
          /\ \E poll_result \in poll_document_status_activity \cup {Raised} :
               CASE poll_result = Raised ->
                      /\ wf_pc' = "raised"
                      /\ UNCHANGED <<completed_documents, failed_documents, history>>
                 [] poll_result.status = "completed" ->
                      /\ wf_pc' = wf_pc
                      /\ completed_documents' = Append(completed_documents, page_number)
                      /\ history' = Observe(history, page_number, poll_result.state)
                      /\ UNCHANGED failed_documents
                 [] poll_result.status = "failed" ->
                      /\ wf_pc' = wf_pc
                      /\ failed_documents' =
                           Append(failed_documents, <<page_number, poll_result.state>>)
                      /\ history' = Observe(history, page_number, poll_result.state)
                      /\ UNCHANGED completed_documents
                 [] OTHER ->
                      /\ wf_pc' = wf_pc
                      /\ history' = Observe(history, page_number, poll_result.state)
                      /\ UNCHANGED <<completed_documents, failed_documents>>

\* A loop that allows one round more
may_retry_once_more(failed, attempt, limit) == Len(failed) > 0 /\ attempt <= limit

\* while failed_documents and retry_attempt < max_retries
may_retry(failed, attempt, limit) == Len(failed) > 0 /\ attempt < limit

RetryLoop ==
  /\ wf_pc = "retry_loop"
  /\ UNCHANGED <<grouping_vars, poll_vars, max_retries, upload_results, completed_documents,
                 failed_documents, page_results, grouped_results,
                 patients_with_insurance, wf_result>>
  /\ wi' = 1
  /\ IF may_retry(failed_documents, retry_attempt, max_retries)
     THEN /\ retry_attempt' = retry_attempt + 1
          /\ retry_tasks' = failed_documents
          /\ history' = ScheduleAll(history, failed_documents, 1, "retry")
          /\ still_failed' = <<>>
          /\ wf_pc' = "await_retry"
     ELSE /\ wf_pc' = "retrieve"
          /\ UNCHANGED <<retry_attempt, retry_tasks, history, still_failed>>

AwaitRetry ==
  /\ wf_pc = "await_retry"
  /\ UNCHANGED <<grouping_vars, poll_vars, max_retries, upload_results, retry_attempt, retry_tasks,
                 page_results, grouped_results, patients_with_insurance, wf_result>>
  /\ IF wi > Len(retry_tasks)
     THEN /\ failed_documents' = still_failed
          /\ wf_pc' = "retry_loop"
          /\ wi' = 1
          /\ UNCHANGED <<completed_documents, still_failed, history>>
     ELSE LET page_number == retry_tasks[wi][1]
              failed_state == retry_tasks[wi][2]
          IN
          /\ wf_pc' = wf_pc
          /\ wi' = wi + 1
          /\ UNCHANGED failed_documents
          /\ \E retry_result \in retry_failed_document_activity(failed_state) :
               IF retry_result.status \in {"retry_triggered", "wait_and_check"}
               THEN \E poll_result \in poll_document_status_activity \cup {Raised} :
                         CASE poll_result = Raised ->
                                /\ still_failed' = Append(still_failed, <<page_number, failed_state>>)
                                /\ history' = Schedule(history, page_number, "poll")
                                /\ UNCHANGED completed_documents
                           [] poll_result.status = "completed" ->
                                /\ completed_documents' = Append(completed_documents, page_number)
                                /\ history' = Observe(Schedule(history, page_number, "poll"),
                                                      page_number, poll_result.state)
                                /\ UNCHANGED still_failed
                           [] OTHER ->
                                /\ still_failed' =
                                     Append(still_failed, <<page_number, poll_result.state>>)
                                /\ history' = Observe(Schedule(history, page_number, "poll"),
                                                      page_number, poll_result.state)
                                /\ UNCHANGED completed_documents
               ELSE /\ still_failed' = Append(still_failed, <<page_number, failed_state>>)
                    /\ UNCHANGED <<completed_documents, history>>

\* The empty results for the documents that are still failed
RECURSIVE empty_results(_, _, _)
empty_results(failed, completed_page_numbers, n) ==
  IF n > Len(failed) THEN <<>>
  ELSE (IF failed[n][1] \notin completed_page_numbers
        THEN << [page_num |-> failed[n][1], data |-> Empty] >>
        ELSE <<>>)
       \o empty_results(failed, completed_page_numbers, n + 1)

\* page_results.sort(key=lambda x: x["page_num"]), a stable sort
RECURSIVE sort_by_page_num(_)
sort_by_page_num(results) ==
  IF Len(results) = 0 THEN <<>>
  ELSE LET m == MinOf({results[n].page_num : n \in 1..Len(results)})
           k == MinOf({n \in 1..Len(results) : results[n].page_num = m})
       IN <<results[k]>>
          \o sort_by_page_num(SubSeq(results, 1, k - 1) \o SubSeq(results, k + 1, Len(results)))

Retrieve ==
  /\ wf_pc = "retrieve"
  /\ UNCHANGED <<grouping_vars, poll_vars, max_retries, upload_results, completed_documents,
                 failed_documents, retry_attempt, retry_tasks, still_failed,
                 grouped_results, patients_with_insurance>>
  /\ IF wi > Len(completed_documents)
     THEN /\ wf_pc' = "returned"
          /\ wi' = 1
          /\ UNCHANGED history
          /\ page_results' =
               sort_by_page_num(page_results
                                \o empty_results(failed_documents, PageSet(completed_documents), 1))
          /\ wf_result' = [file_name |-> "file", pages |-> page_results']
     ELSE /\ wf_pc' = wf_pc
          /\ wi' = wi + 1
          /\ UNCHANGED wf_result
          /\ history' = Schedule(history, completed_documents[wi], "result")
          /\ \E classification_data \in get_classification_result(completed_documents[wi]) :
               page_results' = Append(page_results,
                                      [page_num |-> completed_documents[wi],
                                       data |-> classification_data])

(***************************************************************************)
(* ClassifyAndGroupPDFPagesWorkflow and                                    *)
(* ClassifyGroupAndExtractInsuranceWorkflow.                               *)
(***************************************************************************)
\* dict.get(key, default) on a result
result_get(dict, key, default) == IF key \in DOMAIN dict THEN dict[key] ELSE default

\* ClassifyAndGroupPDFPagesWorkflow returns what the grouping activity returned
ReturnGrouped ==
  /\ wf_pc = "group"
  /\ pc \in {"done", "error"}
  /\ UNCHANGED <<grouping_vars, poll_vars, wi, max_retries, upload_results, completed_documents,
                 failed_documents, retry_attempt, retry_tasks, still_failed,
                 page_results, history, patients_with_insurance, wf_result>>
  /\ IF pc = "error"
     THEN wf_pc' = "raised" /\ UNCHANGED grouped_results
     ELSE wf_pc' = "insurance_ids" /\ grouped_results' = result

GetInsuranceIds ==
  /\ wf_pc = "insurance_ids"
  /\ UNCHANGED <<grouping_vars, poll_vars, max_retries, upload_results, completed_documents,
                 failed_documents, retry_attempt, retry_tasks, still_failed,
                 page_results, history, grouped_results, patients_with_insurance>>
  /\ wi' = 1
  /\ \E insurance_tag_id \in BOOLEAN, insurance_prompt_revid \in BOOLEAN :
       IF ~insurance_tag_id \/ ~insurance_prompt_revid
       THEN wf_pc' = "returned" /\ wf_result' = grouped_results
       ELSE wf_pc' = "patients" /\ UNCHANGED wf_result

\* What get_document_status_activity gives: a state of the document, None
\* ("not_found"), or an error ("raised")
get_document_status_activity ==
  {"uploaded", "ocr_processing", "ocr_completed", "llm_processing", "llm_completed",
   "llm_failed", "ocr_failed", "archived", "not_found", "raised"}

\* A wait that takes ocr_completed for the end
poll_for_llm_completed_or_ocr(poll_num, max_polls) ==
  {[reached |-> state \in {"ocr_completed", "llm_completed"}, state |-> state,
    polls |-> max_polls] : state \in get_document_status_activity}

\* for poll_num in range(max_polls): how the wait for llm_completed can end
RECURSIVE poll_for_llm_completed(_, _)
poll_for_llm_completed(poll_num, max_polls) ==
  IF poll_num >= max_polls
  THEN {[reached |-> FALSE, state |-> "budget", polls |-> poll_num]}
  ELSE UNION {
         IF state \in {"raised", "not_found", "llm_failed", "ocr_failed"}
         THEN {[reached |-> FALSE, state |-> state, polls |-> poll_num + 1]}
         ELSE IF state = "llm_completed"
         THEN {[reached |-> TRUE, state |-> state, polls |-> poll_num + 1]}
         ELSE poll_for_llm_completed(poll_num + 1, max_polls) :
         state \in get_document_status_activity}

\* One patient of the loop: the patient's PDF is uploaded and polled, and the
\* insurance result is attached when the document reached llm_completed
ProcessPatient ==
  /\ wf_pc = "patients"
  /\ UNCHANGED <<grouping_vars, poll_vars, max_retries, upload_results, completed_documents,
                 failed_documents, retry_attempt, retry_tasks, still_failed,
                 page_results, grouped_results>>
  /\ LET patients_found == result_get(grouped_results, "patients", <<>>) IN
     IF wi > Len(patients_found)
     THEN /\ wf_pc' = "returned"
          /\ wi' = 1
          /\ UNCHANGED <<patients_with_insurance, history>>
          /\ wf_result' =
               [file_name |-> result_get(grouped_results, "file_name", ""),
                pages |-> result_get(grouped_results, "pages", <<>>),
                schedule |-> result_get(grouped_results, "schedule", <<>>),
                patients |-> patients_with_insurance]
     ELSE LET patient_data == patients_found[wi] IN
          /\ wi' = wi + 1
          /\ UNCHANGED wf_result
          /\ IF Len(patient_data.pages) = 0
             THEN /\ wf_pc' = wf_pc
                  /\ patients_with_insurance' = Append(patients_with_insurance, patient_data)
                  /\ history' = Append(history, [poll |-> 0, retry |-> 0, result |-> 0,
                                                 state |-> "no_pages"])
             ELSE \E upload_result \in {"document_id", "raised"},
                     insurance_result \in {"insurance_result", "raised"} :
                  \E status \in (IF upload_result = "raised"
                                 THEN {[reached |-> FALSE, state |-> "raised", polls |-> 0]}
                                 ELSE poll_for_llm_completed(0, MaxPolls)) :
                    /\ history' = Append(history,
                                         [poll |-> status.polls, retry |-> 0,
                                          result |-> IF status.reached THEN 1 ELSE 0,
                                          state |-> status.state])
                    /\ IF \/ status.state = "raised"
                          \/ status.reached /\ insurance_result = "raised"
                       THEN wf_pc' = "raised" /\ UNCHANGED patients_with_insurance
                       ELSE /\ wf_pc' = wf_pc
                            /\ patients_with_insurance' =
                                 Append(patients_with_insurance,
                                        IF status.reached
                                        THEN [key |-> patient_data.key,
                                              pages |-> patient_data.pages,
                                              patient_insurance_card |-> insurance_result]
                                        ELSE patient_data)
(***************************************************************************)
(* poll_document_status_activity: one pass of its loop per step.           *)
(***************************************************************************)
FAILED_STATES == {"ocr_failed", "llm_failed"}

\* What one GET gives: "request_error" (httpx.RequestError), an HTTP status
\* that raise_for_status rejects, or the JSON's state ("" when it has none)
Responses ==
  {[kind |-> "request_error", code |-> 0, state |-> ""],
   [kind |-> "http", code |-> 404, state |-> ""],
   [kind |-> "http", code |-> 500, state |-> ""]}
  \cup {[kind |-> "http", code |-> 200, state |-> state] :
          state \in {"uploaded", "ocr_processing", "ocr_completed", "ocr_failed",
                     "llm_processing", "llm_completed", "llm_failed", ""}}

\* A sleep that takes no time
sleep_none(now, took, seconds) == now

\* The clock after a request that took `took` seconds and asyncio.sleep(seconds)
sleep(now, took, seconds) == now + took + seconds

\* Lines 74-81: the top of the loop reads the clock
PollLoop ==
  /\ poll_pc = "loop"
  /\ UNCHANGED <<grouping_vars, workflow_vars, max_wait_seconds, poll_interval_seconds,
                 current_time>>
  /\ IF current_time >= max_wait_seconds
     THEN /\ poll_pc' = "returned"
          /\ poll_return' = [status |-> "timeout", state |-> "unknown"]
     ELSE /\ poll_pc' = "request"
          /\ UNCHANGED poll_return

\* Lines 83-131 and 133-139: the GET, its answer, and the sleep
PollRequest ==
  /\ poll_pc = "request"
  /\ UNCHANGED <<grouping_vars, workflow_vars, max_wait_seconds, poll_interval_seconds>>
  /\ \E response \in Responses, took \in 0..MaxRequestTime :
       CASE response.kind = "request_error" ->
              /\ poll_pc' = "raised"
              /\ current_time' = current_time + took
              /\ UNCHANGED poll_return
         [] response.code = 404 ->
              /\ poll_pc' = "returned"
              /\ poll_return' = [status |-> "failed", state |-> "not_found"]
              /\ current_time' = current_time + took
         [] response.code = 200 /\ response.state \in COMPLETED_STATES ->
              /\ poll_pc' = "returned"
              /\ poll_return' = [status |-> "completed", state |-> response.state]
              /\ current_time' = current_time + took
         [] response.code = 200 /\ response.state \in FAILED_STATES ->
              /\ poll_pc' = "returned"
              /\ poll_return' = [status |-> "failed", state |-> response.state]
              /\ current_time' = current_time + took
         [] OTHER ->
              /\ poll_pc' = "loop"
              /\ current_time' = sleep(current_time, took, poll_interval_seconds)
              /\ UNCHANGED poll_return

(***************************************************************************)
(* Properties                                                              *)
(***************************************************************************)
Processed(n) == pc # "first" \/ n < i

GroupsOf(ps, n) == {g \in 1..Len(ps) : n \in PageSet(ps[g].pages)}

InSchedule(n) == \E k \in 1..Len(surgery_schedule_pages) : surgery_schedule_pages[k] = n

DeferredNums == {pages_without_dob[k][1] : k \in 1..Len(pages_without_dob)}

Occurrences(n) ==
  Cardinality({k \in 1..Len(surgery_schedule_pages) : surgery_schedule_pages[k] = n})
  + Cardinality(UNION {{<<g, k>> : k \in {j \in 1..Len(patients[g].pages) :
                                             patients[g].pages[j] = n}} :
                       g \in 1..Len(patients)})

\* What a payload carries, found independently of the first pass
PayloadFacts ==
  [p \in AllPayloads |->
     LET text == LowerStr(Str(p))
         has(keywords) == \E k \in 1..Len(keywords) : Contains(text, keywords[k])
     IN [signal |-> \E f \in {field_mappings.first_name, field_mappings.last_name,
                              field_mappings.dob, field_mappings.mrn} :
                      Truthy(find_field(p, f)),
         primary |-> has(primary_keywords),
         secondary |-> has(secondary_keywords),
         first_name |-> normalize_name(find_field(p, field_mappings.first_name)),
         last_name |-> normalize_name(find_field(p, field_mappings.last_name))]]

HasIdentitySignal(p) == PayloadFacts[p].signal

HasPrimaryKeyword(p) == PayloadFacts[p].primary

HasSecondaryKeyword(p) == PayloadFacts[p].secondary

MergePcs == {"third", "third_remove", "fourth_find", "fourth", "fourth_remove"}

\* C1: when the activity returns, every page that carries an identity signal
\* or a schedule keyword is in surgery_schedule or in exactly one patient group.
C1_PartitionComplete ==
  pc = "done" =>
    \A n \in 1..Len(pages) :
      LET p == pages[n].data IN
      (Truthy(p) /\ (HasIdentitySignal(p) \/ HasPrimaryKeyword(p)
                     \/ HasSecondaryKeyword(p)))
        => (InSchedule(n) \/ Cardinality(GroupsOf(patients, n)) = 1)

\* C2: in the returned result no page number occurs more than once across
\* surgery_schedule and all patient page lists together.
C2_NoDoubleCounting ==
  pc = "done" => \A n \in 1..Len(pages) : Occurrences(n) <= 1

C2_Witness ==
  /\ pc = "done"
  /\ Len(patients_to_remove) > 0
  /\ Len(cards_to_remove) > 0
  /\ \E g \in 1..Len(patients) : Len(patients[g].pages) = 3

\* C3: during the fuzzy name merge and the card adjacency merge no page is a
\* member of two patient groups at the same time.
C3_NeverInTwoGroups ==
  pc \in MergePcs => \A n \in 1..Len(pages) : Cardinality(GroupsOf(patients, n)) <= 1

StrictlyAscending(seq) == \A k \in 1..(Len(seq) - 1) : seq[k] < seq[k + 1]

\* C4: in the returned result every patient group's pages are in ascending
\* order without repetition and surgery_schedule is in ascending order.
C4_SortedResult ==
  pc = "done" =>
    /\ \A g \in 1..Len(patients) : StrictlyAscending(patients[g].pages)
    /\ \A k \in 1..(Len(surgery_schedule_pages) - 1) :
         surgery_schedule_pages[k] <= surgery_schedule_pages[k + 1]

\* page 1 (deferred) was appended after page 2 (placed in the first pass)
C4_Witness ==
  /\ pc = "done"
  /\ pages[1].data = JaneName
  /\ pages[2].data = JaneIso
  /\ \E g \in 1..Len(patients) :
       /\ patients[g].key = <<"j", "a", "n", "e", "_", "d", "o", "e", "_", "1", "9", "8", "0", "_", "0", "1", "_", "0", "1">>
       /\ SubSeq(patients[g].pages, 1, 2) = <<1, 2>>

\* C5: a page whose lowercased payload text contains a primary keyword is put
\* in surgery_schedule as soon as it is processed, and is never in a patient
\* group nor in the deferred queue.
C5_ScheduleHasPriority ==
  \A n \in 1..Len(pages) :
    LET p == pages[n].data IN
    (Truthy(p) /\ HasPrimaryKeyword(p))
      => /\ GroupsOf(patients, n) = {}
         /\ n \notin DeferredNums
         /\ Processed(n) => InSchedule(n)

C5_Witness ==
  /\ pc = "done"
  /\ \E n, m \in 1..Len(pages) :
       /\ pages[n].data = Sched
       /\ HasIdentitySignal(pages[n].data)
       /\ InSchedule(n)
       /\ pages[m].data = JaneIso
       /\ GroupsOf(patients, m) # {}

\* The key a page with a name and a parseable DOB is filed under
ExpectedKey(p) ==
  CASE p = JaneIso -> <<"j", "a", "n", "e", "_", "d", "o", "e", "_", "1", "9", "8", "0", "_", "0", "1", "_", "0", "1">>
    [] p = JaneUs -> <<"j", "a", "n", "e", "_", "d", "o", "e", "_", "1", "9", "8", "0", "_", "0", "1", "_", "0", "1">>
    [] p = JanFull -> <<"j", "a", "n", "_", "d", "o", "e", "_", "1", "9", "9", "0", "_", "0", "5", "_", "0", "2">>
    [] p = AnnDob -> <<"a", "n", "n", "_", "1", "9", "9", "0", "_", "0", "5", "_", "0", "2">>
    [] p = NgDob -> <<"n", "g", "_", "2", "0", "2", "0", "_", "0", "4", "_", "1", "3">>
    [] OTHER -> <<>>

\* C6: a non-schedule page with a parseable DOB and a name is, once the first
\* pass has processed it, in exactly the group keyed by its normalized names
\* joined with the DOB as YYYY_MM_DD; names differing in case / whitespace
\* and DOB texts in different formats give the same key.
C6_DirectPlacement ==
  pc \in {"first", "second"} =>
    \A n \in 1..Len(pages) :
      (Processed(n) /\ Len(ExpectedKey(pages[n].data)) > 0)
        => \E g \in 1..Len(patients) :
             /\ patients[g].key = ExpectedKey(pages[n].data)
             /\ GroupsOf(patients, n) = {g}

C6_Witness ==
  /\ pc = "first"
  /\ i = 3
  /\ pages[1].data = JaneIso
  /\ pages[2].data = JaneUs
  /\ patients = << [key |-> <<"j", "a", "n", "e", "_", "d", "o", "e", "_", "1", "9", "8", "0", "_", "0", "1", "_", "0", "1">>, pages |-> <<1, 2>>] >>

DeferredStep == pc = "second" /\ i <= Len(pages_without_dob)

\* C7: deferred pages are processed in input order and each is appended to
\* exactly one group, chosen by name match, else MRN match, else DOB match,
\* else a new group.
C7_DeferredPriority ==
  [][DeferredStep =>
       LET page_num == pages_without_dob[i][1]
           first_name == pages_without_dob[i][2]
           last_name == pages_without_dob[i][3]
           mrn == pages_without_dob[i][4]
           dob == pages_without_dob[i][5]
           byName == {g \in 1..Len(patients) :
                        name_match(first_name, last_name, patients[g].key)}
           byMrn == {g \in 1..Len(patients) :
                       Len(mrn) > 0 /\ mrn \in patient_metadata[patients[g].key].mrn}
           byDob == {g \in 1..Len(patients) :
                       Len(dob) > 0 /\ patient_metadata[patients[g].key].dob = dob}
           target == GroupsOf(patients', page_num)
       IN /\ Cardinality(target) = 1
          /\ byName # {} => target = {MinOf(byName)}
          /\ (byName = {} /\ byMrn # {}) => target = {MinOf(byMrn)}
          /\ (byName = {} /\ byMrn = {} /\ byDob # {}) => target = {MinOf(byDob)}
          /\ (byName = {} /\ byMrn = {} /\ byDob = {})
               => \A g \in target :
                    patients'[g].key = new_patient_key(first_name, last_name, mrn, dob)
          /\ \A k \in 1..Len(pages_without_dob) :
               /\ k < i => pages_without_dob[k][1] < page_num
               /\ k > i => /\ pages_without_dob[k][1] > page_num
                           /\ GroupsOf(patients', pages_without_dob[k][1]) = {}
  ]_vars

\* page 3 name-matches group 1 and its MRN is in the mrn_seen of group 2
C7_Witness ==
  /\ pc = "second"
  /\ i = 2
  /\ pages[1].data = JaneIso
  /\ pages[2].data = JanFull
  /\ pages[3].data = JaneName
  /\ <<"M", "7">> \in patient_metadata[patients[2].key].mrn
  /\ GroupsOf(patients, 3) = {1}

\* C8: a deferred page with first and last name and no DOB, whose names equal
\* those of a group keyed first_last_YYYY_MM_DD, is appended to the first such
\* group and no group is created.
C8_DeferredNameMatch ==
  [][DeferredStep =>
       LET page_num == pages_without_dob[i][1]
           first_name == pages_without_dob[i][2]
           last_name == pages_without_dob[i][3]
           dob == pages_without_dob[i][5]
           same == {g \in 1..Len(patients) :
                      LET parts == Split(patients[g].key, "_") IN
                      /\ Len(parts) = 5
                      /\ has_dob_suffix(parts)
                      /\ parts[1] = first_name
                      /\ parts[2] = last_name}
       IN (Len(first_name) > 0 /\ Len(last_name) > 0 /\ Len(dob) = 0 /\ same # {})
            => /\ Len(patients') = Len(patients)
               /\ GroupsOf(patients', page_num) = {MinOf(same)}
  ]_vars

C8_Witness ==
  /\ pc = "second"
  /\ i = 2
  /\ pages[1].data = JaneIso
  /\ pages[2].data = JaneUs
  /\ pages[3].data = JaneName
  /\ patients = << [key |-> <<"j", "a", "n", "e", "_", "d", "o", "e", "_", "1", "9", "8", "0", "_", "0", "1", "_", "0", "1">>, pages |-> <<1, 2, 3>>] >>

\* The groups holding a first-pass page whose names are exactly these
CreatedFrom(first_name, last_name) ==
  {g \in 1..Len(patients) :
     \E n \in PageSet(patients[g].pages) :
       LET p == pages[n].data IN
       /\ n \notin DeferredNums
       /\ PayloadFacts[p].first_name = first_name
       /\ PayloadFacts[p].last_name = last_name}

\* C9: a deferred page with a first name and no last name is appended to an
\* existing group created from the same first name and a DOB with no last name.
C9_FirstNameOnlyMatch ==
  [][DeferredStep =>
       LET page_num == pages_without_dob[i][1]
           first_name == pages_without_dob[i][2]
           last_name == pages_without_dob[i][3]
           same == CreatedFrom(first_name, <<>>)
       IN (Len(first_name) > 0 /\ Len(last_name) = 0 /\ same # {})
            => (/\ GroupsOf(patients', page_num) \subseteq same
                /\ GroupsOf(patients', page_num) # {})
  ]_vars

\* C10: a deferred page with a last name and no first name is appended to an
\* existing group created from the same last name and a DOB with no first name.
C10_LastNameOnlyMatch ==
  [][DeferredStep =>
       LET page_num == pages_without_dob[i][1]
           first_name == pages_without_dob[i][2]
           last_name == pages_without_dob[i][3]
           same == CreatedFrom(<<>>, last_name)
       IN (Len(first_name) = 0 /\ Len(last_name) > 0 /\ same # {})
            => (/\ GroupsOf(patients', page_num) \subseteq same
                /\ GroupsOf(patients', page_num) # {})
  ]_vars


\* C11: a deferred page that matches no group by name, MRN or DOB is put in
\* exactly one group and the step does not fail; the key is the name parts
\* joined by "_" when it has a name, else "mrn_" + mrn, else "dob_" + dob; the
\* group is appended to the dict when the key is new, and otherwise the page
\* is appended to the group already under that key.
C11_NewGroupKey ==
  [][DeferredStep =>
       LET page_num == pages_without_dob[i][1]
           first_name == pages_without_dob[i][2]
           last_name == pages_without_dob[i][3]
           mrn == pages_without_dob[i][4]
           dob == pages_without_dob[i][5]
           byName == {g \in 1..Len(patients) :
                        name_match(first_name, last_name, patients[g].key)}
           byMrn == {g \in 1..Len(patients) :
                       mrn # <<>> /\ mrn \in patient_metadata[patients[g].key].mrn}
           byDob == {g \in 1..Len(patients) :
                       dob # <<>> /\ patient_metadata[patients[g].key].dob = dob}
           names == (IF first_name # <<>> THEN <<first_name>> ELSE <<>>)
                    \o (IF last_name # <<>> THEN <<last_name>> ELSE <<>>)
           key == IF names # <<>> THEN Join(names, "_")
                  ELSE IF mrn # <<>> THEN <<"m", "r", "n", "_">> \o mrn
                  ELSE <<"d", "o", "b", "_">> \o dob
           existing == {g \in 1..Len(patients) : patients[g].key = key}
       IN (byName = {} /\ byMrn = {} /\ byDob = {})
            => /\ pc' # "error"
               /\ names # <<>> \/ mrn # <<>> \/ dob # <<>>
               /\ IF existing = {}
                  THEN patients' = Append(patients, [key |-> key, pages |-> <<page_num>>])
                  ELSE /\ Cardinality(existing) = 1
                       /\ patients' = [g \in 1..Len(patients) |->
                                         IF g \in existing
                                         THEN [key |-> key,
                                               pages |-> Append(patients[g].pages, page_num)]
                                         ELSE patients[g]]
  ]_vars

\* a "dob_" group was created and the second page named Ann joined the group "ann"
C11_Witness ==
  /\ pc = "third"
  /\ pages[1].data = DobOnly
  /\ pages[2].data = AnnOnly
  /\ pages[3].data = AnnOnly
  /\ patients = << [key |-> <<"d", "o", "b", "_", "1", "9", "8", "0", "_", "0", "1", "_", "0", "1">>, pages |-> <<1>>],
                   [key |-> <<"a", "n", "n">>, pages |-> <<2, 3>>] >>

\* The key without a trailing _YYYY_MM_DD, in lower case
NameOf(key) ==
  LET n == Len(key)
      dated == /\ n >= 11
               /\ key[n - 10] = "_" /\ key[n - 5] = "_" /\ key[n - 2] = "_"
               /\ \A k \in {n - 9, n - 8, n - 7, n - 6, n - 4, n - 3, n - 1, n} :
                    key[k] \in {Digits[d] : d \in 1..10}
  IN [k \in 1..(IF dated THEN n - 11 ELSE n) |-> Lower(key[k])] \o <<>>

\* The strings one insertion, deletion or substitution away from s (and s),
\* with inserted and substituted characters drawn from chars
OneEdit(s, chars) ==
  {s}
  \cup {SubSeq(s, 1, k - 1) \o SubSeq(s, k + 1, Len(s)) : k \in 1..Len(s)}
  \cup {[s EXCEPT ![k] = c] : k \in 1..Len(s), c \in chars}
  \cup {SubSeq(s, 1, k) \o <<c>> \o SubSeq(s, k + 1, Len(s)) : k \in 0..Len(s), c \in chars}

\* The edit distance of a and b when it is at most 2, and 3 when it is more
EditDistance(a, b) ==
  LET chars == {a[k] : k \in 1..Len(a)} \cup {b[k] : k \in 1..Len(b)} IN
  IF a = b THEN 0
  ELSE IF b \in OneEdit(a, chars) THEN 1
  ELSE IF OneEdit(a, chars) \cap OneEdit(b, chars) # {} THEN 2
  ELSE 3

FuzzyStep == pc = "third" /\ i <= Len(patients) /\ Len(patients[i].pages) = 1

\* C12: when the fuzzy pass evaluates a group of exactly one page, and the
\* least edit distance from its name string to the name strings of the other
\* groups is at most 2, its page is appended to the first group at that least
\* distance and its key is queued for removal; when the least distance is
\* more than 2 the step changes nothing.  No queued key is in the result.
C12_FuzzyMerge ==
  /\ [][FuzzyStep =>
          LET others == (1..Len(patients)) \ {i}
              distance == [g \in others |->
                             EditDistance(NameOf(patients[i].key), NameOf(patients[g].key))]
              near == {g \in others : distance[g] <= 2}
              best == CHOOSE g \in near :
                        \A h \in near : distance[g] < distance[h]
                                         \/ (distance[g] = distance[h] /\ g <= h)
          IN IF near = {}
             THEN patients' = patients /\ patients_to_remove' = patients_to_remove
             ELSE /\ patients' = [patients EXCEPT ![best].pages = @ \o patients[i].pages]
                  /\ patients_to_remove' = Append(patients_to_remove, patients[i].key)
       ]_vars
  /\ [](pc = "done" =>
          \A k \in 1..Len(patients_to_remove) :
            \A g \in 1..Len(patients) : patients[g].key # patients_to_remove[k])

\* jane_doe_1980_01_01 is 2 edits from both jon_doe and joe_doe and went to
\* the first; joe_doe is 1 edit from jon_doe and 2 from jane_doe
C12_Witness ==
  /\ pc = "done"
  /\ pages[1].data = JaneIso
  /\ pages[2].data = JonName
  /\ pages[3].data = JoeName
  /\ patients_to_remove = << <<"j", "a", "n", "e", "_", "d", "o", "e", "_", "1", "9", "8", "0", "_", "0", "1", "_", "0", "1">>, <<"j", "o", "e", "_", "d", "o", "e">> >>
  /\ patients = << [key |-> <<"j", "o", "n", "_", "d", "o", "e">>, pages |-> <<1, 2, 3>>] >>

KeySet(ps) == {ps[g].key : g \in 1..Len(ps)}

JonAndJane == {<<"j", "o", "n", "_", "d", "o", "e">>, <<"j", "a", "n", "e", "_", "d", "o", "e", "_", "1", "9", "8", "0", "_", "0", "1", "_", "0", "1">>}

\* The fuzzy pass is evaluating the one-page group jon_doe and the only other
\* group is jane_doe_1980_01_01
JonDoeStep == FuzzyStep /\ patients[i].key = <<"j", "o", "n", "_", "d", "o", "e">> /\ KeySet(patients) = JonAndJane

\* C13 as stated: the one-page group jon_doe is not merged into
\* jane_doe_1980_01_01, the only other group: the step that evaluates it
\* changes no group and queues no removal.
C13_JonDoeNotMerged ==
  [][JonDoeStep => (patients' = patients /\ patients_to_remove' = patients_to_remove)]_vars

\* C13 amended: the one-page group jon_doe is merged into
\* jane_doe_1980_01_01, the only other group (jon_doe and jane_doe are 2
\* edits apart): its page is appended to that group, its key is queued for
\* removal and is not in the result.
C13_JonDoeMerged ==
  /\ [][JonDoeStep =>
          LET jane == CHOOSE g \in 1..Len(patients) : patients[g].key # <<"j", "o", "n", "_", "d", "o", "e">> IN
          /\ patients' = [patients EXCEPT ![jane].pages = Append(@, patients[i].pages[1])]
          /\ patients_to_remove' = Append(patients_to_remove, <<"j", "o", "n", "_", "d", "o", "e">>)
       ]_vars
  /\ [](pc = "done" =>
          ((\E k \in 1..Len(patients_to_remove) : patients_to_remove[k] = <<"j", "o", "n", "_", "d", "o", "e">>)
             => <<"j", "o", "n", "_", "d", "o", "e">> \notin KeySet(patients)))

C13_Witness ==
  /\ pc = "done"
  /\ pages[1].data = JaneIso
  /\ pages[2].data = JaneIso
  /\ pages[3].data = JonName
  /\ patients_to_remove = << <<"j", "o", "n", "_", "d", "o", "e">> >>
  /\ patients = << [key |-> <<"j", "a", "n", "e", "_", "d", "o", "e", "_", "1", "9", "8", "0", "_", "0", "1", "_", "0", "1">>, pages |-> <<1, 2, 3>>] >>

(***************************************************************************)
(* Properties of the card pass                                             *)
(***************************************************************************)
CardStep == pc = "fourth" /\ i <= Len(standalone_cards)

\* Page n is an insurance or ID card page
IsCardPage(n) == pages[n].data \in {CardMrn, CardZed}

\* The groups the scan for the card under key may merge it into: the other
\* groups that hold no card page
CardCandidates(key) ==
  {g \in 1..Len(patients) :
     /\ patients[g].key # key
     /\ \A n \in PageSet(patients[g].pages) : ~IsCardPage(n)}

Spans(g, n) ==
  /\ \E m \in PageSet(patients[g].pages) : m < n
  /\ \E m \in PageSet(patients[g].pages) : m > n

Adjoins(g, n) ==
  \/ \A m \in PageSet(patients[g].pages) : m > n /\ n + 1 \in PageSet(patients[g].pages)
  \/ \A m \in PageSet(patients[g].pages) : m < n /\ n - 1 \in PageSet(patients[g].pages)

\* The second name part of a key, the _YYYY_MM_DD suffix set aside
SurnameOf(key) ==
  LET name == NameOf(key)
      cuts == {k \in 1..Len(name) : name[k] = "_"}
      first == IF cuts = {} THEN Len(name) + 1 ELSE MinOf(cuts)
      rest == {k \in cuts : k > first}
      second == IF rest = {} THEN Len(name) + 1 ELSE MinOf(rest)
  IN SubSeq(name, first + 1, second - 1)

SameSurname(g, key) == SurnameOf(key) # <<>> /\ SurnameOf(patients[g].key) = SurnameOf(key)

MergedInto(g, key, n) ==
  /\ patients' = [patients EXCEPT ![g].pages = Append(@, n)]
  /\ cards_to_remove' = Append(cards_to_remove, key)

\* C14: a standalone card whose page number is strictly inside the page
\* range of a candidate group is merged into that group (the first such group
\* in dict order), whatever other groups are adjacent to it or share its
\* surname; the merged card's key is not in the result.
C14_MiddleWins ==
  /\ [][CardStep =>
          LET key == standalone_cards[i][1]
              n == standalone_cards[i][2]
              middle == {g \in CardCandidates(key) : Spans(g, n)}
          IN middle # {} => MergedInto(MinOf(middle), key, n)
       ]_vars
  /\ [](pc = "done" =>
          \A k \in 1..Len(cards_to_remove) :
            \A g \in 1..Len(patients) : patients[g].key # cards_to_remove[k])

\* card page 3 is inside ann_1990_05_02 (pages 2 and 4); jane_doe_1980_01_01,
\* scanned first, has the card's surname
C14_Witness ==
  /\ pc = "done"
  /\ pages[1].data = JaneIso
  /\ pages[2].data = AnnDob
  /\ pages[3].data = CardZed
  /\ pages[4].data = AnnDob
  /\ cards_to_remove = << <<"z", "e", "d", "_", "d", "o", "e">> >>
  /\ patients = << [key |-> <<"j", "a", "n", "e", "_", "d", "o", "e", "_", "1", "9", "8", "0", "_", "0", "1", "_", "0", "1">>, pages |-> <<1>>],
                   [key |-> <<"a", "n", "n", "_", "1", "9", "9", "0", "_", "0", "5", "_", "0", "2">>, pages |-> <<2, 3, 4>>] >>

\* C15: when the card is inside no candidate's page range, it is merged into
\* the first candidate adjacent to it if there is one, whether or not a
\* surname match is scanned before it, and otherwise into the first candidate
\* with its surname.
C15_AdjacentBeatsSurname ==
  [][CardStep =>
       LET key == standalone_cards[i][1]
           n == standalone_cards[i][2]
           middle == {g \in CardCandidates(key) : Spans(g, n)}
           adjacent == {g \in CardCandidates(key) : Adjoins(g, n)}
           surname == {g \in CardCandidates(key) : SameSurname(g, key)}
       IN middle = {} =>
            /\ adjacent # {} => MergedInto(MinOf(adjacent), key, n)
            /\ (adjacent = {} /\ surname # {}) => MergedInto(MinOf(surname), key, n)
  ]_vars

\* jane_doe_1980_01_01 (page 1) has the card's surname and is scanned first;
\* ann_1990_05_02 (page 2) is adjacent to card page 3
C15_Witness ==
  /\ pc = "done"
  /\ pages[1].data = JaneIso
  /\ pages[2].data = AnnDob
  /\ pages[3].data = CardZed
  /\ pages[4].data = Empty
  /\ cards_to_remove = << <<"z", "e", "d", "_", "d", "o", "e">> >>
  /\ patients = << [key |-> <<"j", "a", "n", "e", "_", "d", "o", "e", "_", "1", "9", "8", "0", "_", "0", "1", "_", "0", "1">>, pages |-> <<1>>],
                   [key |-> <<"a", "n", "n", "_", "1", "9", "9", "0", "_", "0", "5", "_", "0", "2">>, pages |-> <<2, 3>>] >>

Queued == {patients_to_remove[k] : k \in 1..Len(patients_to_remove)}
            \cup {cards_to_remove[k] : k \in 1..Len(cards_to_remove)}

\* C16: a one-page group for which the fuzzy pass finds no other group within
\* 2 edits is not queued for removal when it is evaluated; a standalone card
\* that is inside no candidate, adjacent to none and shares no surname is not
\* queued either; neither step fails; a key is queued only by the step that
\* evaluates its group; and from the start of the fuzzy pass to the return a
\* group that is not queued stays in the dict under its key with its pages.
C16_UnmatchedStaysStandalone ==
  /\ [][FuzzyStep =>
          LET others == (1..Len(patients)) \ {i}
              near == {g \in others :
                         EditDistance(NameOf(patients[i].key), NameOf(patients[g].key)) <= 2}
          IN near = {} => /\ patients' = patients
                          /\ patients_to_remove' = patients_to_remove
                          /\ pc' # "error"
       ]_vars
  /\ [][CardStep =>
          LET key == standalone_cards[i][1]
              n == standalone_cards[i][2]
              match == {g \in CardCandidates(key) :
                          Spans(g, n) \/ Adjoins(g, n) \/ SameSurname(g, key)}
          IN match = {} => /\ patients' = patients
                           /\ cards_to_remove' = cards_to_remove
                           /\ pc' # "error"
       ]_vars
  /\ [][\A key \in Queued' \ Queued :
            \/ FuzzyStep /\ key = patients[i].key
            \/ CardStep /\ key = standalone_cards[i][1]
       ]_vars
  /\ [][(pc \in MergePcs \cup {"sort"}) =>
          \A g \in 1..Len(patients) :
            patients[g].key \notin Queued
              => \E h \in 1..Len(patients') :
                   /\ patients'[h].key = patients[g].key
                   /\ PageSet(patients[g].pages) \subseteq PageSet(patients'[h].pages)
       ]_vars

\* the card on page 1 has no group around it, next to it or of its surname
C16_Witness ==
  /\ pc = "done"
  /\ pages[1].data = CardMrn
  /\ pages[2].data = Empty
  /\ pages[3].data = JaneIso
  /\ pages[4].data = Empty
  /\ Len(standalone_cards) = 1
  /\ patients = << [key |-> <<"j", "a", "n", "e", "_", "d", "o", "e", "_", "1", "9", "8", "0", "_", "0", "1", "_", "0", "1">>, pages |-> <<3>>],
                   [key |-> <<"m", "r", "n", "_", "K", "9">>, pages |-> <<1>>] >>

(***************************************************************************)
(* Properties of the first pass on malformed input                         *)
(***************************************************************************)
\* Where the first pass left page n
Outcome(n) ==
  IF InSchedule(n) THEN "schedule"
  ELSE IF n \in DeferredNums THEN "deferred"
  ELSE IF GroupsOf(patients, n) # {} THEN "group"
  ELSE "dropped"

\* The payloads whose DOB text no format and no fallback parses
BadDobPayloads == {AnnBadDob, SurgBadDob}

\* The payload without its dob entry
WithoutDob(p) == D(SelectSeq(p.items, LAMBDA e : e.k # <<"d", "o", "b">>))

\* C17: after the first pass a page whose DOB text cannot be parsed is where
\* the same page without the DOB field is (schedule, dropped, deferred or in a
\* group), and it is deferred when it has a name or an MRN.
C17_UnparseableDobAsAbsent ==
  (pc = "second" /\ i = 1) =>
    \A n \in 1..Len(pages) :
      pages[n].data \in BadDobPayloads
        => /\ \A m \in 1..Len(pages) :
                pages[m].data = WithoutDob(pages[n].data) => Outcome(n) = Outcome(m)
           /\ (PayloadFacts[pages[n].data].first_name # <<>>) => Outcome(n) = "deferred"

\* C18: when the payload of some page is not a mapping the activity does not
\* return a result.
C18_NonMappingFails ==
  (\E n \in 1..Len(pages) : pages[n].data.t # "dict") => pc # "done"

TwoDigits(n) == << Digits[(n \div 10) + 1], Digits[(n % 10) + 1] >>

\* YYYY_MM_DD, zero-padded
Canonical(date) ==
  TwoDigits(date.y \div 100) \o TwoDigits(date.y % 100) \o <<"_">> \o TwoDigits(date.m)
  \o <<"_">> \o TwoDigits(date.d)

\* C19: for every date, a page named Ann whose DOB is the date written as
\* YYYY-MM-DD, as MM/DD/YYYY or as "Month D, YYYY" is filed by the first pass
\* under "ann_" followed by the date as zero-padded YYYY_MM_DD.
C19_DobRoundTrip ==
  (pc = "second" /\ i = 1) =>
    \A date \in DobDates :
      \A text \in DobTexts(date) :
        pages[1].data = DobPayload(text)
          => patients = << [key |-> <<"a", "n", "n", "_">> \o Canonical(date), pages |-> <<1>>] >>

Keys(ps) == [g \in 1..Len(ps) |-> ps[g].key]

\* C20: the first and the deferred-matching pass remove no group key; the
\* fuzzy and card passes, their removals and the final sort add none; a step
\* that merges pages into a group leaves every key as it was.
C20_KeyLifecycle ==
  /\ [][ (pc \in {"first", "second"} => KeySet(patients) \subseteq KeySet(patients')) ]_vars
  /\ [][ (pc \in MergePcs \cup {"sort"} => KeySet(patients') \subseteq KeySet(patients)) ]_vars
  /\ [][ (pc \in {"third", "fourth"} => Keys(patients') = Keys(patients)) ]_vars

\* The activity has returned after a fuzzy merge and a card merge
C20_Witness ==
  /\ pc = "done"
  /\ Len(patients_to_remove) > 0
  /\ Len(cards_to_remove) > 0
  /\ Len(patients) > 0

(***************************************************************************)
(* Field lookup order, re-runs and the first-pass fallthrough.             *)
(***************************************************************************)
FieldNames == {"first_name", "last_name", "dob", "mrn"}

KeyMatches(key, names) == \E f \in 1..Len(names) : Contains(LowerStr(key), names[f])

\* The lookup that tries all keys of a mapping before any nested value
RECURSIVE OwnKeysFirst(_, _)
OwnKeysFirst(data, names) ==
  IF data.t \notin {"dict", "list"} THEN None
  ELSE LET all == 1..Len(data.items)
           hits == {n \in all : data.t = "dict" /\ KeyMatches(data.items[n].k, names)}
           below == {n \in all : OwnKeysFirst(data.items[n].v, names).t # "none"}
       IN IF hits # {} THEN data.items[MinOf(hits)].v
          ELSE IF below # {} THEN OwnKeysFirst(data.items[MinOf(below)].v, names)
          ELSE None

\* C21 (as stated): on every page the first pass has gone over, each field
\* lookup returns what a search that checks all keys of a mapping before
\* descending into any of its values returns.
C21_OwnKeysFirst ==
  \A n \in 1..Len(pages) : \A f \in FieldNames :
    Processed(n) =>
      find_field(pages[n].data, field_mappings[f]) = OwnKeysFirst(pages[n].data, field_mappings[f])

\* Paths (positions from the root) of the matching keys that no matching key
\* lies above
RECURSIVE MatchPaths(_, _)
MatchPaths(data, names) ==
  IF data.t \notin {"dict", "list"} THEN {}
  ELSE UNION {IF data.t = "dict" /\ KeyMatches(data.items[n].k, names)
              THEN {<<n>>}
              ELSE {<<n>> \o p : p \in MatchPaths(data.items[n].v, names)} :
              n \in 1..Len(data.items)}

RECURSIVE ValueAt(_, _)
ValueAt(data, p) == IF p = <<>> THEN data ELSE ValueAt(data.items[Head(p)].v, Tail(p))

\* p comes before q in document order
Before(p, q) ==
  \E k \in 1..Len(p) : k <= Len(q) /\ p[k] < q[k] /\ \A j \in 1..(k - 1) : p[j] = q[j]

\* A matching key whose value is null ends the search of the mapping that
\* holds it: the non-null matches that can be returned are those that no
\* null match precedes in a mapping on their path
Returnable(data, names) ==
  {p \in MatchPaths(data, names) :
     /\ ValueAt(data, p).t # "none"
     /\ ~\E q \in MatchPaths(data, names) :
           /\ ValueAt(data, q).t = "none"
           /\ Len(q) <= Len(p)
           /\ SubSeq(q, 1, Len(q) - 1) = SubSeq(p, 1, Len(q) - 1)
           /\ q[Len(q)] < p[Len(q)]}

FirstInDocumentOrder(data, names) ==
  LET found == Returnable(data, names) IN
  IF found = {} THEN None
  ELSE ValueAt(data, CHOOSE p \in found : \A q \in found \ {p} : Before(p, q))

\* C21 (amended): on every page the first pass has gone over, each field
\* lookup returns the value of the first matching key in document order, a
\* key's nested values coming before the next key of the same mapping.
C21_DocumentOrder ==
  \A n \in 1..Len(pages) : \A f \in FieldNames :
    Processed(n) =>
      find_field(pages[n].data, field_mappings[f])
        = FirstInDocumentOrder(pages[n].data, field_mappings[f])

\* The first pass has filed the page whose nested first name precedes its own
C21_Witness ==
  /\ pc = "second"
  /\ Len(pages) = 1
  /\ pages[1].data = NestFirst
  /\ patients = << [key |-> <<"a", "n", "n", "_", "d", "o", "e", "_", "1", "9", "8", "0", "_", "0", "1", "_", "0", "1">>, pages |-> <<1>>] >>

\* A patients dict as a mapping, whatever its order
AsMapping(ps) == {<<ps[g].key, ps[g].pages>> : g \in 1..Len(ps)}

\* C22: the invocation on the pages that the first invocation returned, with
\* their payloads as they were, returns the same surgery_schedule and the same
\* patients mapping (keys and pages) as the first.
C22_Idempotent ==
  (pc = "done" /\ first_run.kind = "output") =>
    /\ surgery_schedule_pages = first_run.surgery_schedule
    /\ AsMapping(patients) = AsMapping(first_run.patients)

\* The invocation on the returned pages of (Jon Doe, Joe Doe, a page that was
\* left out) has merged the two pages again
C22_Witness ==
  /\ pc = "done"
  /\ first_run.kind = "output"
  /\ Len(pages) = 2
  /\ pages[1] = [page_num |-> 1, data |-> JonName]
  /\ pages[2] = [page_num |-> 2, data |-> JoeName]
  /\ patients = << [key |-> <<"j", "o", "e", "_", "d", "o", "e">>, pages |-> <<1, 2>>] >>
  /\ first_run.patients = patients

PrimaryWords ==
  {<<"s", "u", "r", "g", "e", "r", "y", " ", "s", "c", "h", "e", "d", "u", "l", "e">>, <<"s", "c", "h", "e", "d", "u", "l", "e">>, <<"s", "u", "r", "g", "i", "c", "a", "l", " ", "s", "c", "h", "e", "d", "u", "l", "e">>, <<"o", "p", "e", "r", "a", "t", "i", "n", "g", " ", "r", "o", "o", "m">>, <<"o", "r", " ", "s", "c", "h", "e", "d", "u", "l", "e">>}

SecondaryWords == {<<"s", "c", "h", "e", "d", "u", "l", "e">>, <<"s", "u", "r", "g", "e", "r", "y">>, <<"o", "p", "e", "r", "a", "t", "i", "n", "g">>}

\* The lowercased text of the payload holds one of the words
TextHas(data, words) == \E w \in words : Contains(LowerStr(Str(data)), w)

\* No key of the payload, at any depth, names a first name, last name, DOB or
\* MRN
NoIdentityKey(data) == \A f \in FieldNames : MatchPaths(data, field_mappings[f]) = {}

\* C27: a page the first pass has gone over, with a non-empty payload, no
\* primary keyword and no identity field, is in surgery_schedule exactly when
\* its text holds "schedule", "surgery" or "operating", and is in no patient
\* group and not in the deferred queue.
C27_SecondaryKeyword ==
  \A n \in 1..Len(pages) :
    (/\ Processed(n)
     /\ Truthy(pages[n].data)
     /\ ~TextHas(pages[n].data, PrimaryWords)
     /\ NoIdentityKey(pages[n].data))
    => /\ InSchedule(pages[n].page_num) <=> TextHas(pages[n].data, SecondaryWords)
       /\ GroupsOf(patients, pages[n].page_num) = {}
       /\ pages[n].page_num \notin DeferredNums

\* The activity has returned with the surgery note in surgery_schedule and
\* the page without any signal nowhere
C27_Witness ==
  /\ pc = "done"
  /\ Len(pages) = 2
  /\ pages[1].data = SurgNote
  /\ pages[2].data = NoSignal
  /\ surgery_schedule_pages = <<1>>
  /\ patients = <<>>

\* The groups whose mrn_seen holds the MRN
Holders(mrn) ==
  {g \in 1..Len(patients) : mrn # <<>> /\ mrn \in patient_metadata[patients[g].key].mrn}

\* The dict with the page appended to its g-th group
WithPage(g, page_num) ==
  [k \in 1..Len(patients) |->
     IF k = g THEN [key |-> patients[k].key, pages |-> Append(patients[k].pages, page_num)]
     ELSE patients[k]]

\* C28 as stated: a deferred page without a name that carries the MRN of an
\* earlier deferred page appended by name match joins the group of that page,
\* whichever other group holds the MRN.
C28_SameGroup ==
  [][DeferredStep =>
       LET page_num == pages_without_dob[i][1]
           mrn == pages_without_dob[i][4]
       IN (pages_without_dob[i][2] = <<>> /\ pages_without_dob[i][3] = <<>> /\ mrn # <<>>) =>
            \A k \in 1..(i - 1) :
              (/\ pages_without_dob[k][4] = mrn
               /\ \E g \in GroupsOf(patients, pages_without_dob[k][1]) :
                    name_match(pages_without_dob[k][2], pages_without_dob[k][3],
                               patients[g].key))
              => /\ GroupsOf(patients', page_num) = GroupsOf(patients, pages_without_dob[k][1])
                 /\ Len(patients') = Len(patients)
  ]_vars

\* C28: a deferred page that matches a group by name is appended to it, its
\* MRN is added to the group's mrn_seen and a DOB the group has is kept; a
\* deferred page without a name whose MRN some group holds is appended to the
\* first such group and no group is created; during the second pass every
\* deferred page gone over that carries an MRN sits in a group whose mrn_seen
\* holds it, so the later page with that MRN alone joins that same group
\* when no group before it in the dict holds the MRN.
C28_MrnEnrichment ==
  /\ [][DeferredStep =>
          LET page_num == pages_without_dob[i][1]
              first_name == pages_without_dob[i][2]
              last_name == pages_without_dob[i][3]
              mrn == pages_without_dob[i][4]
              byName == {g \in 1..Len(patients) :
                           name_match(first_name, last_name, patients[g].key)}
          IN /\ byName # {} =>
                  LET g == MinOf(byName)
                      key == patients[g].key
                  IN /\ patients' = WithPage(g, page_num)
                     /\ patient_metadata'[key].mrn
                          = patient_metadata[key].mrn \cup (IF mrn # <<>> THEN {mrn} ELSE {})
                     /\ patient_metadata[key].dob # <<>>
                          => patient_metadata'[key].dob = patient_metadata[key].dob
             /\ (first_name = <<>> /\ last_name = <<>> /\ Holders(mrn) # {}) =>
                  /\ patients' = WithPage(MinOf(Holders(mrn)), page_num)
                  /\ \A k \in 1..(i - 1) :
                       (/\ pages_without_dob[k][4] = mrn
                        /\ pages_without_dob[k][2] # <<>>
                        /\ GroupsOf(patients, pages_without_dob[k][1]) # {}
                        /\ \A g \in Holders(mrn) :
                             g >= MinOf(GroupsOf(patients, pages_without_dob[k][1])))
                       => GroupsOf(patients', page_num)
                            = GroupsOf(patients, pages_without_dob[k][1])
     ]_vars
  /\ [](pc = "second" =>
          \A k \in 1..Len(pages_without_dob) :
            (k < i /\ pages_without_dob[k][4] # <<>>) =>
              \E g \in Holders(pages_without_dob[k][4]) :
                pages_without_dob[k][1] \in PageSet(patients[g].pages))

\* The page with the MRN alone has joined the group of the page that matched
\* by name and brought the MRN
C28_Witness ==
  /\ pc = "third"
  /\ Len(pages) = 3
  /\ pages[1].data = JaneIso
  /\ pages[2].data = JaneName
  /\ pages[3].data = MrnOnly
  /\ patients = << [key |-> <<"j", "a", "n", "e", "_", "d", "o", "e", "_", "1", "9", "8", "0", "_", "0", "1", "_", "0", "1">>, pages |-> <<1, 2, 3>>] >>

(***************************************************************************)
(* The workflows.                                                          *)
(***************************************************************************)
EntriesOf(page_number) ==
  {n \in 1..Len(wf_result.pages) : wf_result.pages[n].page_num = page_number}

\* C24: when ClassifyPDFPagesWorkflow returns, every uploaded page number has
\* exactly one entry in pages and no other page number has one; the entry of a
\* page whose document completed carries what the retrieval gave, the entry of
\* any other page carries an empty result.
C24_OneEntryPerPage ==
  wf_pc = "returned" =>
    /\ \A page_number \in PageSet(upload_results) : Cardinality(EntriesOf(page_number)) = 1
    /\ \A n \in 1..Len(wf_result.pages) :
         LET entry == wf_result.pages[n] IN
         /\ entry.page_num \in PageSet(upload_results)
         /\ IF entry.page_num \in PageSet(completed_documents)
            THEN entry.data \in get_classification_result(entry.page_num)
            ELSE entry.data = Empty

\* C25: no document has retry_failed_document_activity scheduled more than
\* max_retries times and the retry loop runs at most max_retries rounds; once
\* max_retries rounds have run the loop ends, failed documents or not; a
\* document that completed gets no further retry.
C25_RetriesBounded ==
  /\ [](/\ retry_attempt <= max_retries
        /\ \A doc \in DOMAIN history : history[doc].retry <= max_retries)
  /\ [][ ((wf_pc = "retry_loop" /\ retry_attempt >= max_retries) => wf_pc' = "retrieve") ]_vars
  /\ [][ (\A doc \in PageSet(completed_documents) \cap DOMAIN history' :
            history'[doc].retry = history[doc].retry) ]_vars

\* The workflow has returned after two rounds of retries with page 1 still
\* failed and page 2 completed after its first retry
C25_Witness ==
  /\ wf_pc = "returned"
  /\ max_retries = 2
  /\ retry_attempt = 2
  /\ failed_documents = << <<1, "llm_failed">> >>
  /\ Len(history) = 2
  /\ history[1].retry = 2
  /\ history[2].retry = 1
  /\ completed_documents = <<2>>

\* C26: when the insurance tag and prompt were found (the workflow went
\* through its patients and built its own result), the "schedule" it returns
\* is the surgery_schedule that the grouping activity returned.
C26_ScheduleReturned ==
  (wf_pc = "returned" /\ "schedule" \in DOMAIN wf_result) =>
    wf_result.schedule = surgery_schedule_pages
(***************************************************************************)
(* Slash dates and the order of the strict formats.                        *)
(***************************************************************************)
\* A calendar date, read off the calendar and not off the parser
OnCalendar(y, m, d) ==
  /\ m \in 1..12
  /\ d >= 1
  /\ d <= (IF m \in {4, 6, 9, 11} THEN 30
           ELSE IF m # 2 THEN 31
           ELSE IF (y % 4 = 0 /\ y % 100 # 0) \/ y % 400 = 0 THEN 29 ELSE 28)

\* The group key of the one page named Ann with the date y, m, d
AnnKey(y, m, d) ==
  <<"a", "n", "n", "_">> \o Pad(y, 4) \o <<"_">> \o TwoDigits(m) \o <<"_">> \o TwoDigits(d)

\* The result is the one group of page 1 under the key
OnlyGroup(key) == patients = << [key |-> key, pages |-> <<1>>] >>

\* C29: a slash date a/b/y is read as month a, day b when that is a date of
\* the calendar, and as day a, month b only when it is not and day a of
\* month b is; "03/04/2020" gives 2020_03_04 and "13/04/2020" gives
\* 2020_04_13.
C29_MonthDayFirst ==
  (pc = "done" /\ Len(pages) = 1) =>
    /\ \A a \in SlashFields, b \in SlashFields, y \in SlashYears, w \in {1, 2} :
         pages[1].data = DobPayload(SlashText(a, b, y, w)) =>
           IF OnCalendar(y, a, b) THEN OnlyGroup(AnnKey(y, a, b))
           ELSE OnCalendar(y, b, a) => OnlyGroup(AnnKey(y, b, a))
    /\ pages[1].data = DobPayload(<<"0", "3", "/", "0", "4", "/", "2", "0", "2", "0">>) => OnlyGroup(<<"a", "n", "n", "_", "2", "0", "2", "0", "_", "0", "3", "_", "0", "4">>)
    /\ pages[1].data = DobPayload(<<"1", "3", "/", "0", "4", "/", "2", "0", "2", "0">>) => OnlyGroup(<<"a", "n", "n", "_", "2", "0", "2", "0", "_", "0", "4", "_", "1", "3">>)

\* Both fields at most 12: the page dated 03/04/2020 is grouped under March 4
C29_Witness ==
  /\ pc = "done"
  /\ Len(pages) = 1
  /\ pages[1].data = DobPayload(<<"0", "3", "/", "0", "4", "/", "2", "0", "2", "0">>)
  /\ patients = << [key |-> <<"a", "n", "n", "_", "2", "0", "2", "0", "_", "0", "3", "_", "0", "4">>, pages |-> <<1>>] >>

(***************************************************************************)
(* The card pass and groups that hold a card.                              *)
(***************************************************************************)
\* The card pages of a group, by what the page is
CardsIn(group_pages) ==
  {n \in PageSet(group_pages) : pages[n].data \in {CardZed, CardMrn, CardId, JaneCard}}

\* The card pages the pass has merged so far
MergedCards ==
  {standalone_cards[k][2] : k \in {k \in 1..Len(standalone_cards) :
     \E q \in 1..Len(cards_to_remove) : cards_to_remove[q] = standalone_cards[k][1]}}

\* C30: a step of the card pass changes only a group that holds no card page
\* at that step, by appending the card to it; so from the pass on, a group
\* that has received a card in the pass holds that one card page and no other.
C30_OneCardPerGroup ==
  /\ [][CardStep =>
          /\ Len(patients') = Len(patients)
          /\ \A g \in 1..Len(patients) :
               patients'[g] # patients[g] =>
                 /\ CardsIn(patients[g].pages) = {}
                 /\ patients'[g].key = patients[g].key
                 /\ patients'[g].pages = Append(patients[g].pages, standalone_cards[i][2])
       ]_vars
  /\ [](pc \in {"fourth", "fourth_remove", "sort", "done"} =>
          \A g \in 1..Len(patients) :
            (/\ Len(patients[g].pages) > 1
             /\ PageSet(patients[g].pages) \cap MergedCards # {})
            => Cardinality(CardsIn(patients[g].pages)) = 1)

\* Card page 2 was merged into the group of page 1; the scan for card page 3
\* then passed that group over although page 3 is adjacent to it
C30_Witness ==
  /\ pc = "done"
  /\ Len(pages) = 3
  /\ pages[1].data = JaneIso
  /\ pages[2].data = CardZed
  /\ pages[3].data = CardMrn
  /\ patients = << [key |-> <<"j", "a", "n", "e", "_", "d", "o", "e", "_", "1", "9", "8", "0", "_", "0", "1", "_", "0", "1">>, pages |-> <<1, 2>>],
                   [key |-> <<"m", "r", "n", "_", "K", "9">>, pages |-> <<3>>] >>
(***************************************************************************)
(* The fuzzy pass: one evaluation per group, and the groups that receive.  *)
(***************************************************************************)
\* The keys the fuzzy pass has merged away
MergedAway == {patients_to_remove[k] : k \in 1..Len(patients_to_remove)}

\* Group g holds the page of another one-page group that was merged away
Received(g) ==
  /\ Len(patients[g].pages) > 1
  /\ \E q \in (1..Len(patients)) \ {g} :
       /\ patients[q].key \in MergedAway
       /\ patients[q].pages[1] \in PageSet(patients[g].pages)

\* C31: in the fuzzy pass no group is merged away twice, and a group that
\* has received a page from a merge of the pass is not one the pass merges
\* away.
C31_ReceiverKept ==
  pc \in {"third", "third_remove"} =>
    /\ \A k, m \in 1..Len(patients_to_remove) :
         patients_to_remove[k] = patients_to_remove[m] => k = m
    /\ (pc = "third" =>
          \A g \in 1..Len(patients) : Received(g) => patients[g].key \notin MergedAway)

(***************************************************************************)
(* The card pass keeps every page.                                         *)
(***************************************************************************)
CardPcs == {"fourth_find", "fourth", "fourth_remove"}

\* The pages held by the patient groups of a dict
Grouped(ps) == UNION {PageSet(ps[g].pages) : g \in 1..Len(ps)}

CardsQueued == {cards_to_remove[k] : k \in 1..Len(cards_to_remove)}

\* C32: no step of the card pass changes the set of pages held by the patient
\* groups; the group a card is merged into is not queued for deletion, then
\* or later in the pass, and a queued group holds its card page alone.
C32_CardPassKeepsPages ==
  /\ [][ (pc \in CardPcs => Grouped(patients') = Grouped(patients)) ]_vars
  /\ [][CardStep =>
          \A g \in 1..Len(patients) :
            patients'[g] # patients[g] => patients[g].key \notin CardsQueued']_vars
  /\ [](pc \in CardPcs =>
          \A g \in 1..Len(patients) :
            patients[g].key \in CardsQueued =>
              /\ Len(patients[g].pages) = 1
              /\ \E h \in (1..Len(patients)) \ {g} :
                   /\ patients[h].key \notin CardsQueued
                   /\ patients[g].pages[1] \in PageSet(patients[h].pages))

\* The card of page 2 was merged into the group of page 1 and its own group
\* deleted; both pages are in the result
C32_Witness ==
  /\ pc = "done"
  /\ Len(pages) = 2
  /\ pages[1].data = JaneIso
  /\ pages[2].data = CardZed
  /\ cards_to_remove = << <<"z", "e", "d", "_", "d", "o", "e">> >>
  /\ patients = << [key |-> <<"j", "a", "n", "e", "_", "d", "o", "e", "_", "1", "9", "8", "0", "_", "0", "1", "_", "0", "1">>, pages |-> <<1, 2>>] >>

(***************************************************************************)
(* Groups keyed by a DOB or an MRN in the fuzzy pass.                      *)
(***************************************************************************)
\* The key was synthesized from a DOB alone or an MRN alone
Nameless(key) ==
  Len(key) > 4 /\ SubSeq(key, 1, 4) \in {<<"d", "o", "b", "_">>, <<"m", "r", "n", "_">>}

\* C33: the step of the fuzzy pass that evaluates a one-page group keyed by a
\* DOB alone or an MRN alone changes no group keyed by another DOB alone or
\* MRN alone and does not queue the evaluated group for such a merge; both
\* groups are in the result.
C33_NamelessKept ==
  [][FuzzyStep =>
       (Nameless(patients[i].key) =>
          \A g \in (1..Len(patients)) \ {i} :
            Nameless(patients[g].key) => patients'[g] = patients[g])
  ]_vars

(***************************************************************************)
(* What the deferred queue holds.                                          *)
(***************************************************************************)
HasName(entry) == entry[2] # <<>> \/ entry[3] # <<>>

\* C34: every entry of the deferred queue carries a name, an MRN or a
\* normalized DOB and never a name together with a normalized DOB; the step
\* of the second pass on a deferred page leaves it in exactly one patient
\* group, and so is every deferred page when the second pass is over.
C34_DeferredIdentified ==
  /\ [](\A k \in 1..Len(pages_without_dob) :
          LET entry == pages_without_dob[k] IN
          /\ HasName(entry) \/ entry[4] # <<>> \/ entry[5] # <<>>
          /\ ~(HasName(entry) /\ entry[5] # <<>>))
  /\ [][DeferredStep =>
          /\ GroupsOf(patients, pages_without_dob[i][1]) = {}
          /\ Cardinality(GroupsOf(patients', pages_without_dob[i][1])) = 1
          /\ Grouped(patients') = Grouped(patients) \cup {pages_without_dob[i][1]}
       ]_vars
  /\ []((pc = "third" /\ i = 1 /\ patients_to_remove = <<>>) =>
          \A n \in DeferredNums : Cardinality(GroupsOf(patients, n)) = 1)

\* A page with a DOB and no name went through the queue into a group keyed
\* by the DOB
C34_Witness ==
  /\ pc = "third"
  /\ i = 1
  /\ pages[1].data = DobOnly
  /\ 1 \in DeferredNums
  /\ \E g \in 1..Len(patients) :
       patients[g].key = <<"d", "o", "b", "_", "1", "9", "8", "0", "_", "0", "1", "_", "0", "1">> /\ 1 \in PageSet(patients[g].pages)

(***************************************************************************)
(* Null values under matching keys.                                        *)
(***************************************************************************)
\* C35: on every page the first pass has gone over, a field that has a
\* matching key with a non-null value somewhere in the payload is found:
\* the lookup returns a non-null value.
C35_NonNullFound ==
  \A n \in 1..Len(pages) : \A f \in FieldNames :
    (/\ Processed(n)
     /\ \E p \in MatchPaths(pages[n].data, field_mappings[f]) :
          ValueAt(pages[n].data, p).t # "none")
    => find_field(pages[n].data, field_mappings[f]).t # "none"

(***************************************************************************)
(* The document state at which results are requested.                      *)
(***************************************************************************)
\* C36: a document counted as completed, and every document whose
\* classification result has been requested, was last reported by the poller
\* in the state llm_completed.
C36_ResultAfterLlm ==
  /\ \A doc \in PageSet(completed_documents) : history[doc].state = "llm_completed"
  /\ \A doc \in DOMAIN history :
       history[doc].result > 0 => history[doc].state = "llm_completed"

(***************************************************************************)
(* The per-patient extraction keeps the groups.                            *)
(***************************************************************************)
GroupedPatients == result_get(grouped_results, "patients", <<>>)

\* C37: in the per-patient extraction the patients gone over so far are the
\* patients of the grouping step, in order, each with its key and its pages;
\* a patient whose document did not reach llm_completed (not found, failed,
\* poll budget used up) is kept as the grouping step gave it, with no
\* patient_insurance_card, and the loop goes on to the next patient; the
\* patients returned are those of the grouping step.
C37_PatientsKept ==
  /\ [](wf_pc \in {"patients", "returned"} =>
          /\ Len(patients_with_insurance) <= Len(GroupedPatients)
          /\ \A k \in 1..Len(patients_with_insurance) :
               /\ patients_with_insurance[k].key = GroupedPatients[k].key
               /\ patients_with_insurance[k].pages = GroupedPatients[k].pages
               /\ k <= Len(history) /\ history[k].state # "llm_completed"
                    => patients_with_insurance[k] = GroupedPatients[k])
  /\ [][ (wf_pc = "patients" /\ wi <= Len(GroupedPatients) /\ Len(history') > Len(history)
          /\ history'[Len(history')].state \in {"not_found", "llm_failed", "ocr_failed", "budget"})
          => /\ wf_pc' = "patients"
             /\ wi' = wi + 1
             /\ patients_with_insurance' = Append(patients_with_insurance, GroupedPatients[wi]) ]_vars
  /\ [](wf_pc = "returned" =>
          /\ {wf_result.patients[k].key : k \in 1..Len(wf_result.patients)}
               = {patients[g].key : g \in 1..Len(patients)}
          /\ \A k \in 1..Len(wf_result.patients) :
               \E g \in 1..Len(patients) :
                 /\ patients[g].key = wf_result.patients[k].key
                 /\ patients[g].pages = wf_result.patients[k].pages)

\* Two patients returned: the first one's document used up the poll budget
\* and has no card, the second one's reached llm_completed
C37_Witness ==
  /\ wf_pc = "returned"
  /\ Len(history) = 2
  /\ history[1].state = "budget"
  /\ history[2].state = "llm_completed"
  /\ Len(wf_result.patients) = 2
  /\ wf_result.patients[1] = patients[1]
  /\ DOMAIN wf_result.patients[2] = {"key", "pages", "patient_insurance_card"}

(***************************************************************************)
(* The poller ends, and what it returns.                                   *)
(***************************************************************************)
\* C38: the poller ends, by returning or by raising; what it returns has a
\* status of completed, failed or timeout; completed comes with a state of
\* COMPLETED_STATES, failed with a state of FAILED_STATES or with not_found
\* (a 404), and a pass of the loop that starts once max_wait_seconds have
\* elapsed returns timeout, whatever the document's state and the server's
\* answers were until then.
C38_PollEnds ==
  /\ <>(poll_pc \in {"returned", "raised"})
  /\ [](poll_pc = "returned" =>
          /\ poll_return.status \in {"completed", "failed", "timeout"}
          /\ poll_return.status = "completed" => poll_return.state \in COMPLETED_STATES
          /\ poll_return.status = "failed"
               => poll_return.state \in FAILED_STATES \cup {"not_found"}
          /\ poll_return \in poll_document_status_activity)
  /\ [][ ((poll_pc = "loop" /\ current_time >= max_wait_seconds)
           => (poll_pc' = "returned" /\ poll_return'.status = "timeout")) ]_vars
  /\ [](poll_pc \in {"loop", "request"} =>
          current_time < max_wait_seconds + MaxRequestTime + poll_interval_seconds)

\* The document stayed in a processing state or the server kept answering
\* with errors until the wait was over: timeout, after the deadline
C38_Witness ==
  /\ poll_pc = "returned"
  /\ poll_return = [status |-> "timeout", state |-> "unknown"]
  /\ max_wait_seconds = 3
  /\ current_time > max_wait_seconds

Next ==
  \/ FirstPass
  \/ SecondPass
  \/ ThirdPass
  \/ ThirdPassRemove
  \/ FourthPassFind
  \/ FourthPass
  \/ FourthPassRemove
  \/ SortAndReturn

Spec == Init /\ [][Next]_vars

SpecDeferred == InitDeferred /\ [][Next]_vars

SpecCard == InitCard /\ [][Next]_vars

SpecDob == InitDob /\ [][Next]_vars

SpecField == InitField /\ [][Next]_vars

NextAgain ==
  \/ Next
  \/ InvokeAgain
  \/ InvokeOnOutput

SpecAgain == InitAgain /\ [][NextAgain]_vars

RetryChoices == 0..MaxRetries

InitClassify ==
  /\ pages = <<>>
  /\ pc = "done"
  /\ i = 1
  /\ surgery_schedule_pages = <<>>
  /\ patients = <<>>
  /\ pages_without_dob = <<>>
  /\ patient_metadata = <<>>
  /\ patients_to_remove = <<>>
  /\ standalone_cards = <<>>
  /\ cards_to_remove = <<>>
  /\ first_run = NoRun
  /\ \E retries \in RetryChoices : WorkflowAt("classify", retries)
  /\ NoPoll

NextClassify ==
  \/ ClassifyStart
  \/ AwaitFirstPoll
  \/ RetryLoop
  \/ AwaitRetry
  \/ Retrieve

SpecClassify == InitClassify /\ [][NextClassify]_vars

NextInsurance ==
  \/ Next
  \/ ReturnGrouped
  \/ GetInsuranceIds
  \/ ProcessPatient

SpecInsurance == InitInsurance /\ [][NextInsurance]_vars

SpecKeyword == InitKeyword /\ [][Next]_vars

SpecMrn == InitMrn /\ [][Next]_vars

SpecSlash == InitSlash /\ [][Next]_vars

SpecTwoCard == InitTwoCard /\ [][Next]_vars

SpecNameless == InitNameless /\ [][Next]_vars

InitPoll ==
  /\ pages = <<>>
  /\ pc = "done"
  /\ i = 1
  /\ surgery_schedule_pages = <<>>
  /\ patients = <<>>
  /\ pages_without_dob = <<>>
  /\ patient_metadata = <<>>
  /\ patients_to_remove = <<>>
  /\ standalone_cards = <<>>
  /\ cards_to_remove = <<>>
  /\ first_run = NoRun
  /\ WorkflowAt("none", 0)
  /\ poll_pc = "loop"
  /\ max_wait_seconds \in 0..MaxWaitSeconds
  /\ poll_interval_seconds \in 1..MaxPollInterval
  /\ current_time = 0
  /\ poll_return = NoReturn

NextPoll == PollLoop \/ PollRequest

\* The activity's code keeps running, and the client's 30 second timeout ends
\* every request
SpecPoll == InitPoll /\ [][NextPoll]_vars /\ WF_vars(PollLoop) /\ WF_vars(PollRequest)
====
